---- MODULE Spec2Model ----
(***************************************************************************)
(* Model of the server actions of src/app/_actions.ts (the last, complete  *)
(* revision of the file, lines 2624-4629): the storyboard generator, the   *)
(* scene media pipeline, the research orchestrator, influencer discovery,  *)
(* outreach email generation and delivery; of the outreach screen of       *)
(* src/components/research/storyboard-view.tsx; and of the wizard of       *)
(* src/components/product-scraper.tsx.                                     *)
(*                                                                         *)
(* Each subsystem has its own specification over the shared variables:     *)
(*   SpecStoryboard  generateStoryboards / generateClipsWithAI             *)
(*   SpecMedia       generateClipMedia and its helpers                     *)
(*   SpecResearch    scrapeProductUrl / refreshProductResearch             *)
(*   SpecAdExtract   the competitor-ad extraction of runSearchResearch     *)
(*   SpecSearch      refreshProductResearch, any subset of searches failing *)
(*   SpecMediaFair   SpecMedia with every awaited step settling            *)
(*   SpecInfluencers findInfluencers                                       *)
(*   SpecEmails      generateOutreachEmails                                *)
(*   SpecSend        sendOutreachEmail                                     *)
(*   SpecOutreach    InfluencerOutreach / EmailDraftView                   *)
(*   SpecScratch     the scratch directories of two concurrent runs        *)
(*   SpecOrder       runSearchResearch, requests settling in any order     *)
(*   SpecWizard      ProductScraper                                        *)
(* The variables of the subsystems a specification does not run stay at    *)
(* their idle values.                                                      *)
(***************************************************************************)
EXTENDS Integers, Sequences, FiniteSets, TLC

VARIABLES
    \* ---- storyboard generator ----
    sbPc,        \* position in generateStoryboards: "call" | "ai_done" | "done"
    sbKey,       \* OPENAI_API_KEY is set
    sbReply,     \* what the completion service answers
    sbAiClips,   \* value returned by generateClipsWithAI
    sbClips      \* CreativeOutput.clips

sbVars == <<sbPc, sbKey, sbReply, sbAiClips, sbClips>>

VARIABLES
    \* ---- scene media pipeline (one generateClipMedia invocation) ----
    mPc,         \* position in generateClipMedia
    mClips,      \* length of allClips (0: none supplied)
    mEnv,        \* which credentials are set: runway, eleven, mux
    mScene,      \* scene index -> state of its generateVideoScene job
    mAudio,      \* state of the generateVoiceover job
    mVideoUrls,  \* the videoUrls list handed to combineVideosWithAudio
    mCombine,    \* combineResult: "none" | "running" | "ok" | "failed"
    mDl,         \* position -> state of the download of videoUrls[position]
    mOrder,      \* history: did a job / a download settle before one of lower index
    mFs,         \* the scratch directory and the files in it
    mRm,         \* outcome of the last rmSync on the scratch directory
    mFfmpeg,     \* log of the ffmpeg concat runs: the videos read, in order
    mMux,        \* uploadToMux: attempts, polls, asset, playbackId, result, error
    mCalls,      \* how often each stage was started
    mArgs,       \* the arguments of the generateVideoScene / generateVoiceover calls
    mResult      \* the ClipGenerationResult returned

mVars == <<mPc, mClips, mEnv, mScene, mAudio, mVideoUrls, mCombine, mDl, mOrder,
           mFs, mRm, mFfmpeg, mMux, mCalls, mArgs, mResult>>

VARIABLES
    \* ---- competitor-ad extraction applied to given inputs ----
    xPc,         \* "input" | "done"
    xBrand,      \* the researched brand
    xResults,    \* competitorAdResults: the scraped competitor-ad results
    xAds         \* the competitorAds extracted from them

xVars == <<xPc, xBrand, xResults, xAds>>

VARIABLES
    \* ---- research orchestrator (one scrapeProductUrl or ----
    \* ---- refreshProductResearch invocation)             ----
    rPc,            \* position: "call" | "product" | "search" | "scrape" | "agent" | "done"
    rIn,            \* the operation, its arguments and the environment
    rSearchResults, \* searchResults: query index -> the items its search resolved to
    rUrlsToScrape,  \* urlsToScrape: the flattened search results
    rScrapeList,    \* the items handed to scrapeUrl, in call order
    rAllResults,    \* allResults: the scraped items
    rResearch,      \* the MarketResearch returned by runSearchResearch
    rAgent,         \* the MarketResearch returned by runMarketResearch
    rOut,           \* what the operation returned to its caller
    rResponses,     \* query index -> what firecrawl.search answered (or that it threw)
    rScrapeFailed,  \* the urls whose firecrawl.scrape call threw
    rFallback       \* runMarketResearch: "none" (not called) | "returned" | "threw"

rVars == <<rPc, rIn, rSearchResults, rUrlsToScrape, rScrapeList, rAllResults,
           rResearch, rAgent, rOut, rResponses, rScrapeFailed, rFallback>>

VARIABLES
    \* ---- influencer discovery (one findInfluencers invocation) ----
    fPc,         \* position: "call" | "search" | "complete" | "done"
    fIn,         \* the environment: which API keys are configured
    fUnique,     \* uniqueResults: the deduplicated search results, at most 20
    fExtracted,  \* influencers: the parsed influencers with their ids, before the sort
    fOut         \* what findInfluencers returned, or that it threw

fVars == <<fPc, fIn, fUnique, fExtracted, fOut>>

VARIABLES
    \* ---- outreach email generation (one generateOutreachEmails invocation) ----
    gPc,        \* position: "call" | "await" | "done"
    gIn,        \* the influencers argument and whether OPENAI_API_KEY is set
    gIndex,     \* the position in influencers of the current loop iteration
    gInFlight,  \* completion requests issued and not yet settled
    gIssued,    \* the influencers a request was issued for, in issue order
    gReplies,   \* what the completion service answered, in settle order
    gDrafts,    \* drafts
    gOut        \* what generateOutreachEmails returned, or that it threw

gVars == <<gPc, gIn, gIndex, gInFlight, gIssued, gReplies, gDrafts, gOut>>

VARIABLES
    \* ---- outreach screen (InfluencerOutreach and its EmailDraftView) ----
    uMount,        \* which mount of InfluencerOutreach this is (0: not shown)
    uPhase,        \* "empty" | "searching" | "generating" | "ready"
    uInfluencers,  \* influencers: for each influencer whether it has an email
    uDrafts,       \* emailDrafts: influencer and status of each draft
    uSelected,     \* selectedInfluencer (0: null)
    uIsSending,    \* isSending of the EmailDraftView
    uSends         \* the sendOutreachEmail invocations: mount, draft, settled

uVars == <<uMount, uPhase, uInfluencers, uDrafts, uSelected, uIsSending, uSends>>

VARIABLES
    \* ---- email delivery (sendOutreachEmail invocations) ----
    sEnv,    \* whether RESEND_API_KEY is set
    sCalls   \* the invocations: draft, position, delivery calls made, result

sVars == <<sEnv, sCalls>>

VARIABLES
    \* ---- scratch directories of two concurrent generateClipMedia invocations ----
    tInv,    \* invocation -> pc, tempDir, state of each download
    tDirs,   \* directory name -> state, writer of each file, who removed it
    tLog     \* history: the file-system operations, as [by, dir, op]

tVars == <<tInv, tDirs, tLog>>

VARIABLES
    \* ---- runSearchResearch, its searches and scrapes settling one by one ----
    qPc,             \* "search" | "scrape" | "done"
    qIn,             \* what the services answer in this run, and the brand
    qPending,        \* the searches in flight
    qSearchResults,  \* the array Promise.all(searchPromises) is filling
    qScrapeList,     \* the items handed to scrapeUrl, in order
    qScrapePending,  \* the positions of qScrapeList whose scrape is in flight
    qScraped,        \* the array Promise.all(scrapePromises) is filling
    qOrder,          \* history: did a search / scrape settle before one of lower index
    qOut             \* the MarketResearch returned

qVars == <<qPc, qIn, qPending, qSearchResults, qScrapeList, qScrapePending, qScraped,
           qOrder, qOut>>

VARIABLES
    \* ---- ProductScraper wizard ----
    wStage,       \* stage: "input" | "analyzing" | "results" | "creative" | "outreach"
    wUrl,         \* url
    wResult,      \* result: null, or the ScrapeResult of a url (with research or not)
    wCreative,    \* creative: "null", or the url of the product it was generated for
    wPlaybackId,  \* generatedMuxPlaybackId: "null", or the url of the product of its video
    wScrapes,     \* the scrapeProductUrl calls in flight: id and url
    wRefresh,     \* the refreshProductResearch call in flight: "null" or its product
    wGen,         \* the generateStoryboards call in flight: "null" or its product
    wMedia,       \* the generateClipMedia calls in flight: the products of their clips
    wSubmits,     \* how many urls were submitted
    wAfterReset   \* history: handleReset ran and no url was submitted since

wVars == <<wStage, wUrl, wResult, wCreative, wPlaybackId, wScrapes, wRefresh, wGen,
           wMedia, wSubmits, wAfterReset>>

vars == <<sbVars, mVars, xVars, rVars, fVars, gVars, uVars, sVars, tVars, qVars, wVars>>

\* what each subsystem leaves alone
sbFrame == <<mVars, xVars, rVars, fVars, gVars, uVars, sVars, tVars, qVars, wVars>>

mFrame == <<sbVars, xVars, rVars, fVars, gVars, uVars, sVars, tVars, qVars, wVars>>

xFrame == <<sbVars, mVars, rVars, fVars, gVars, uVars, sVars, tVars, qVars, wVars>>

rFrame == <<sbVars, mVars, xVars, fVars, gVars, uVars, sVars, tVars, qVars, wVars>>

fFrame == <<sbVars, mVars, xVars, rVars, gVars, uVars, sVars, tVars, qVars, wVars>>

gFrame == <<sbVars, mVars, xVars, rVars, fVars, uVars, sVars, tVars, qVars, wVars>>

uFrame == <<sbVars, mVars, xVars, rVars, fVars, gVars, sVars, tVars, qVars, wVars>>

sFrame == <<sbVars, mVars, xVars, rVars, fVars, gVars, uVars, tVars, qVars, wVars>>

tFrame == <<sbVars, mVars, xVars, rVars, fVars, gVars, uVars, sVars, qVars, wVars>>

qFrame == <<sbVars, mVars, xVars, rVars, fVars, gVars, uVars, sVars, tVars, wVars>>

wFrame == <<sbVars, mVars, xVars, rVars, fVars, gVars, uVars, sVars, tVars, qVars>>

(***************************************************************************)
(* Generic helpers                                                         *)
(***************************************************************************)

\* Array.prototype.slice(0, n)
SliceTo(s, n) == SubSeq(s, 1, IF Len(s) < n THEN Len(s) ELSE n)

Range(s) == {s[i] : i \in 1..Len(s)}

(***************************************************************************)
(* Storyboard generator                                                    *)
(***************************************************************************)

\* Bound: longest JSON array the completion service returns in the model.
MaxReplyLen == 5

\* Number of scenes of one advertisement (slice(0, 4)).
SceneCount == 4

CanonicalLabels == <<"Hook", "Problem", "Solution", "CTA">>

\* An element of the parsed JSON array: a clip object with a label, a clip
\* object without one, or null.
ReplyElems == {"clip", "nolabel", "null"}

ReplyArrays == UNION {[1..n -> ReplyElems] : n \in 0..MaxReplyLen}

\* Outcomes of openai.chat.completions.create followed by JSON.parse.
\*   throw      the call rejects
\*   empty      no content: the code substitutes "[]"
\*   malformed  content that JSON.parse rejects
\*   object, number, string, null   valid JSON that is not an array
\*   array      a JSON array, possibly inside a markdown code fence
Replies ==
    {[kind |-> k, fenced |-> FALSE, items |-> <<>>] :
        k \in {"throw", "empty", "malformed", "object", "number", "string", "null"}}
    \cup {[kind |-> "array", fenced |-> f, items |-> a] :
            f \in BOOLEAN, a \in ReplyArrays}

\* content.replace(/```json\n?/g, "").replace(/```\n?/g, "").trim()
StripFences(reply) == [reply EXCEPT !.fenced = FALSE]

\* finalClips.map((clip, index) => ({ label: clip.label || [...][index], ... }))
MapClip(elem, index) ==
    [label |-> IF elem = "clip" THEN "model" ELSE CanonicalLabels[index],
     prompt |-> "model", voiceover |-> "model"]

\* generateClipsWithAI: every throw inside the try block is caught and
\* turned into the empty list.
GenerateClipsWithAI(key, reply) ==
    IF ~key THEN <<>>                                  \* getOpenAI throws
    ELSE IF reply.kind = "throw" THEN <<>>             \* the request rejects
    ELSE IF reply.kind = "empty" THEN <<>>             \* "[]" parses to []
    ELSE IF reply.kind = "malformed" THEN <<>>         \* JSON.parse throws
    ELSE IF reply.kind \in {"object", "number", "null"} THEN <<>>
                                                       \* clips.slice is not a function
    ELSE IF reply.kind = "string" THEN <<>>            \* "..".slice(0,4).map is not a function
    ELSE LET clips == StripFences(reply).items
             finalClips == SliceTo(clips, SceneCount)
         IN IF \E i \in 1..Len(finalClips) : finalClips[i] = "null"
            THEN <<>>                                  \* clip.label of null throws
            ELSE [i \in 1..Len(finalClips) |-> MapClip(finalClips[i], i)]

\* The deterministic 4-scene fallback of generateStoryboards.
FallbackClips ==
    [i \in 1..4 |-> [label |-> CanonicalLabels[i],
                     prompt |-> "template", voiceover |-> "template"]]

\* generateStoryboards after generateClipsWithAI returned `clips`.
StoryboardClips(clips) ==
    SliceTo(IF Len(clips) = 0 THEN FallbackClips ELSE clips, SceneCount)

SbInit ==
    /\ sbPc = "call"
    /\ sbKey \in BOOLEAN
    /\ sbReply \in Replies
    /\ sbAiClips = <<>>
    /\ sbClips = <<>>

SbIdle ==
    /\ sbPc = "idle"
    /\ sbKey = FALSE
    /\ sbReply = [kind |-> "throw", fenced |-> FALSE, items |-> <<>>]
    /\ sbAiClips = <<>>
    /\ sbClips = <<>>

\* let clips = await generateClipsWithAI(...)
SbCallAI ==
    /\ sbPc = "call"
    /\ sbAiClips' = GenerateClipsWithAI(sbKey, sbReply)
    /\ sbPc' = "ai_done"
    /\ UNCHANGED <<sbKey, sbReply, sbClips>>
    /\ UNCHANGED sbFrame

\* the fallback, the final slice and the return
SbReturn ==
    /\ sbPc = "ai_done"
    /\ sbClips' = StoryboardClips(sbAiClips)
    /\ sbPc' = "done"
    /\ UNCHANGED <<sbKey, sbReply, sbAiClips>>
    /\ UNCHANGED sbFrame

SbNext == SbCallAI \/ SbReturn

(***************************************************************************)
(* Scene media pipeline: generateClipMedia                                 *)
(***************************************************************************)

\* Bound: longest clip list a caller passes to generateClipMedia.
MaxClips == 5

\* allClips.length >= 4 selects the multi-scene branch.
MultiSceneMin == 4

\* const maxAttempts = 60 in uploadToMux.
MaxAttempts == 60

MultiScene(n) == n >= MultiSceneMin

\* Mutant of NumScenes: four scene jobs whatever the clip count.
NumScenesAlwaysFour(n) == 4

\* Number of generateVideoScene jobs of an invocation with n clips.
NumScenes(n) == IF MultiScene(n) THEN 4 ELSE 1

SceneNone(i) ==
    [st |-> "none", success |-> FALSE, sceneIndex |-> i, videoUrl |-> -1, error |-> ""]

SceneRunning(i) == [SceneNone(i) EXCEPT !.st = "running"]

\* generateVideoScene(promptText, sceneIndex): the value its promise resolves
\* to. It never rejects: every throw is caught. The video URL of the job of
\* scene i is written i.
GenerateVideoScene(i, runwayKey, outcome) ==
    IF ~runwayKey
    THEN [st |-> "settled", success |-> FALSE, sceneIndex |-> i, videoUrl |-> -1,
          error |-> "RUNWAYML_API_SECRET not configured"]
    ELSE IF outcome = "ok"
    THEN [st |-> "settled", success |-> TRUE, sceneIndex |-> i, videoUrl |-> i,
          error |-> ""]
    ELSE IF outcome = "nooutput"
    THEN [st |-> "settled", success |-> FALSE, sceneIndex |-> i, videoUrl |-> -1,
          error |-> "No video output returned"]
    ELSE [st |-> "settled", success |-> FALSE, sceneIndex |-> i, videoUrl |-> -1,
          error |-> "task failed"]

SceneOutcomes == {"ok", "nooutput", "throw"}

AudioNone == [st |-> "none", success |-> FALSE, error |-> ""]

\* generateVoiceover(text): the value its promise resolves to.
GenerateVoiceover(elevenKey, outcome) ==
    IF ~elevenKey
    THEN [st |-> "settled", success |-> FALSE, error |-> "ELEVEN_API_KEY not configured"]
    ELSE IF outcome = "ok"
    THEN [st |-> "settled", success |-> TRUE, error |-> ""]
    ELSE IF outcome = "http"
    THEN [st |-> "settled", success |-> FALSE, error |-> "ElevenLabs API error"]
    ELSE [st |-> "settled", success |-> FALSE, error |-> "fetch failed"]

AudioOutcomes == {"ok", "http", "throw"}

\* Insertion of x into a list sorted by sceneIndex, after its equals (the
\* sort of Array.prototype.sort is stable).
RECURSIVE InsertByIndex(_, _)
InsertByIndex(sorted, x) ==
    IF sorted = <<>> THEN <<x>>
    ELSE IF x.sceneIndex < Head(sorted).sceneIndex THEN <<x>> \o sorted
    ELSE <<Head(sorted)>> \o InsertByIndex(Tail(sorted), x)

\* .sort((a, b) => a.sceneIndex - b.sceneIndex)
RECURSIVE SortBySceneIndex(_)
SortBySceneIndex(s) ==
    IF s = <<>> THEN <<>>
    ELSE InsertByIndex(SortBySceneIndex(SubSeq(s, 1, Len(s) - 1)), s[Len(s)])

\* [scene1, scene2, scene3, scene4]: Promise.all resolves to the values in
\* the order of the promises it was given, whatever order they settled in.
SceneResults(scene, n) == [k \in 1..n |-> scene[k - 1]]

\* Mutant of FailedScenes: find instead of filter, only the first failure.
FailedScenesFirstOnly(sceneResults) ==
    SliceTo(SelectSeq(sceneResults, LAMBDA s : ~s.success), 1)

\* sceneResults.filter(s => !s.success)
FailedScenes(sceneResults) == SelectSeq(sceneResults, LAMBDA s : ~s.success)

\* failedScenes.map(s => `Scene ${s.sceneIndex + 1}: ${s.error}`)
SceneErrors(failedScenes) ==
    [k \in 1..Len(failedScenes) |->
        [scene |-> failedScenes[k].sceneIndex + 1, error |-> failedScenes[k].error]]

\* Mutant of VideoUrls: the comparator reversed (b.sceneIndex - a.sceneIndex).
VideoUrlsDescending(sceneResults) ==
    LET ok == SortBySceneIndex(SelectSeq(sceneResults, LAMBDA s : s.success))
    IN [k \in 1..Len(ok) |-> ok[Len(ok) + 1 - k].videoUrl]

\* sceneResults.filter(s => s.success).sort(by sceneIndex).map(s => s.videoUrl)
VideoUrls(sceneResults) ==
    LET ok == SortBySceneIndex(SelectSeq(sceneResults, LAMBDA s : s.success))
    IN [k \in 1..Len(ok) |-> ok[k].videoUrl]

NoResult ==
    [returned |-> FALSE, success |-> FALSE, error |-> "", scenes |-> <<>>,
     playbackId |-> "", assetId |-> "", sceneCount |-> 0]

Failure(prefix, scenes) ==
    [returned |-> TRUE, success |-> FALSE, error |-> prefix, scenes |-> scenes,
     playbackId |-> "", assetId |-> "", sceneCount |-> 0]

\* Mutant of Success: the sceneCount of the single-clip branch in both.
SuccessSingleCount(n, playbackId, assetId) ==
    [returned |-> TRUE, success |-> TRUE, error |-> "", scenes |-> <<>>,
     playbackId |-> playbackId, assetId |-> assetId, sceneCount |-> 1]

\* The success value of generateClipMedia: sceneCount is the literal 4 in
\* the multi-scene branch and the literal 1 in the single-clip branch.
Success(n, playbackId, assetId) ==
    [returned |-> TRUE, success |-> TRUE, error |-> "", scenes |-> <<>>,
     playbackId |-> playbackId, assetId |-> assetId,
     sceneCount |-> IF MultiScene(n) THEN 4 ELSE 1]

\* Mutant of JobFailure: the audio result is not checked.
JobFailureNoAudioCheck(n, sceneResults, audio) ==
    IF MultiScene(n)
    THEN IF Len(FailedScenes(sceneResults)) > 0
         THEN Failure("Video generation failed", SceneErrors(FailedScenes(sceneResults)))
         ELSE NoResult
    ELSE IF ~sceneResults[1].success THEN Failure("Video", <<>>)
         ELSE NoResult

\* The failure checks that follow the Promise.all of the jobs: the value
\* returned, or NoResult when the pipeline goes on to the combination.
JobFailure(n, sceneResults, audio) ==
    IF MultiScene(n)
    THEN IF Len(FailedScenes(sceneResults)) > 0
         THEN Failure("Video generation failed", SceneErrors(FailedScenes(sceneResults)))
         ELSE IF ~audio.success THEN Failure("Audio", <<>>)
         ELSE NoResult
    ELSE IF ~sceneResults[1].success THEN Failure("Video", <<>>)
         ELSE IF ~audio.success THEN Failure("Audio", <<>>)
         ELSE NoResult

\* The videoUrls argument of combineVideosWithAudio.
CombineInput(n, sceneResults) ==
    IF MultiScene(n) THEN VideoUrls(sceneResults) ELSE <<sceneResults[1].videoUrl>>

NoFiles == [i \in 0..3 |-> -1]

FsNone ==
    [dir |-> "none", scene |-> NoFiles, audio |-> FALSE, concat |-> <<>>,
     final |-> FALSE]

\* rmSync(tempDir, { recursive: true, force: true }); when it throws, the
\* throw is swallowed and the directory stays.
RmSync(fs, ok) ==
    IF ok THEN [FsNone EXCEPT !.dir = "removed"] ELSE fs

RmOutcome(ok) == IF ok THEN "ok" ELSE "failed"

\* const videoFiles = await Promise.all(videoPromises): position k holds
\* the path written by the k-th download, scene_<k>.mp4 (written k).
VideoFiles(n) == [k \in 1..n |-> k - 1]

MuxNone ==
    [attempts |-> 0, polls |-> 0, asset |-> "null", playbackId |-> FALSE,
     result |-> "none", error |-> "none"]

\* The condition of the poll loop of uploadToMux: while (attempts < maxAttempts).
PollAgainInclusive(attempts) == attempts <= MaxAttempts

PollAgain(attempts) == attempts < MaxAttempts

NoCalls == [video |-> 0, tts |-> 0, combine |-> 0, upload |-> 0]

NoArgs == [video |-> <<>>, tts |-> <<>>]

\* The arguments of an invocation: videoPrompt is written 0 and the prompt
\* of the k-th clip of allClips k; voiceoverText is "t" and the voiceover
\* of the k-th clip "w" followed by the digit k.
VideoPrompt == 0

VoiceoverText == <<"t">>

AllClips(n) ==
    [k \in 1..n |->
        [prompt |-> k,
         voiceover |-> <<"w", <<"1", "2", "3", "4", "5", "6", "7", "8", "9">>[k]>>]]

\* Array.prototype.join(separator) over a list of strings.
RECURSIVE JoinWith(_, _)
JoinWith(strs, separator) ==
    IF strs = <<>> THEN <<>>
    ELSE IF Len(strs) = 1 THEN strs[1]
    ELSE strs[1] \o separator \o JoinWith(Tail(strs), separator)

\* const scenesToGenerate = allClips.slice(0, 4)
ScenesToGenerate(allClips) == SliceTo(allClips, 4)

\* Mutant of CombinedVoiceover: the voiceovers of all clips, not of
\* scenesToGenerate.
CombinedVoiceoverAllClips(allClips) ==
    JoinWith([k \in 1..Len(allClips) |-> allClips[k].voiceover], <<" ">>)

\* scenesToGenerate.map(c => c.voiceover).join(" ")
CombinedVoiceover(allClips) ==
    LET scenesToGenerate == ScenesToGenerate(allClips)
    IN JoinWith([k \in 1..Len(scenesToGenerate) |-> scenesToGenerate[k].voiceover],
                <<" ">>)

\* The (promptText, sceneIndex) arguments of the generateVideoScene calls,
\* in the order they appear in the Promise.all([...]) expression.
VideoCalls(n, allClips) ==
    IF MultiScene(n)
    THEN [k \in 1..4 |->
            [promptText |-> ScenesToGenerate(allClips)[k].prompt, sceneIndex |-> k - 1]]
    ELSE <<[promptText |-> VideoPrompt, sceneIndex |-> 0]>>

\* The text argument of the generateVoiceover call.
VoiceoverCall(n, allClips) ==
    IF MultiScene(n) THEN CombinedVoiceover(allClips) ELSE VoiceoverText

MInit ==
    /\ mPc = "start"
    /\ mClips \in 0..MaxClips
    /\ mEnv \in [runway : BOOLEAN, eleven : BOOLEAN, mux : BOOLEAN]
    /\ mScene = [i \in 0..3 |-> SceneNone(i)]
    /\ mAudio = AudioNone
    /\ mVideoUrls = <<>>
    /\ mCombine = "none"
    /\ mDl = [i \in 0..3 |-> "none"]
    /\ mOrder = [jobs |-> FALSE, dl |-> FALSE]
    /\ mFs = FsNone
    /\ mRm = "none"
    /\ mFfmpeg = <<>>
    /\ mMux = MuxNone
    /\ mCalls = NoCalls
    /\ mArgs = NoArgs
    /\ mResult = NoResult

MIdle ==
    /\ mPc = "idle"
    /\ mClips = 0
    /\ mEnv = [runway |-> FALSE, eleven |-> FALSE, mux |-> FALSE]
    /\ mScene = [i \in 0..3 |-> SceneNone(i)]
    /\ mAudio = AudioNone
    /\ mVideoUrls = <<>>
    /\ mCombine = "none"
    /\ mDl = [i \in 0..3 |-> "none"]
    /\ mOrder = [jobs |-> FALSE, dl |-> FALSE]
    /\ mFs = FsNone
    /\ mRm = "none"
    /\ mFfmpeg = <<>>
    /\ mMux = MuxNone
    /\ mCalls = NoCalls
    /\ mArgs = NoArgs
    /\ mResult = NoResult

\* The Promise.all([...]) expression: every generateVideoScene call and the
\* generateVoiceover call are issued before any of them is awaited.
MStart ==
    /\ mPc = "start"
    /\ mScene' = [i \in 0..3 |->
                    IF i < NumScenes(mClips) THEN SceneRunning(i) ELSE SceneNone(i)]
    /\ mAudio' = [AudioNone EXCEPT !.st = "running"]
    /\ mCalls' = [mCalls EXCEPT !.video = NumScenes(mClips), !.tts = 1]
    /\ mArgs' = [video |-> VideoCalls(mClips, AllClips(mClips)),
                 tts |-> <<VoiceoverCall(mClips, AllClips(mClips))>>]
    /\ mPc' = "jobs"
    /\ UNCHANGED <<mClips, mEnv, mVideoUrls, mCombine, mDl, mOrder, mFs, mRm,
                   mFfmpeg, mMux, mResult>>
    /\ UNCHANGED mFrame

\* The generateVideoScene job of scene i settles.
MSceneSettle(i) ==
    /\ mScene[i].st = "running"
    /\ \E outcome \in SceneOutcomes :
          mScene' = [mScene EXCEPT ![i] = GenerateVideoScene(i, mEnv.runway, outcome)]
    /\ mOrder' = [mOrder EXCEPT !.jobs = @ \/ \E j \in 0..(i - 1) : mScene[j].st = "running"]
    /\ UNCHANGED <<mPc, mClips, mEnv, mAudio, mVideoUrls, mCombine, mDl, mFs, mRm,
                   mFfmpeg, mMux, mCalls, mResult>>
    /\ UNCHANGED mArgs
    /\ UNCHANGED mFrame

\* The generateVoiceover job settles.
MAudioSettle ==
    /\ mAudio.st = "running"
    /\ \E outcome \in AudioOutcomes :
          mAudio' = GenerateVoiceover(mEnv.eleven, outcome)
    /\ UNCHANGED <<mPc, mClips, mEnv, mScene, mVideoUrls, mCombine, mDl, mOrder, mFs,
                   mRm, mFfmpeg, mMux, mCalls, mResult>>
    /\ UNCHANGED mArgs
    /\ UNCHANGED mFrame

\* Mutant of AllJobsSettled: the join also resolves as soon as one job has
\* failed (the behaviour of Promise.all over promises that reject).
FirstFailureOrAllSettled ==
    \/ /\ \A i \in 0..(NumScenes(mClips) - 1) : mScene[i].st = "settled"
       /\ mAudio.st = "settled"
    \/ \E i \in 0..(NumScenes(mClips) - 1) :
          mScene[i].st = "settled" /\ ~mScene[i].success
    \/ mAudio.st = "settled" /\ ~mAudio.success

AllJobsSettled ==
    /\ \A i \in 0..(NumScenes(mClips) - 1) : mScene[i].st = "settled"
    /\ mAudio.st = "settled"

\* Promise.all resolved: the failure checks, then either a failure is
\* returned or combineVideosWithAudio is called.
MJoin ==
    /\ mPc = "jobs"
    /\ AllJobsSettled
    /\ LET sceneResults == SceneResults(mScene, NumScenes(mClips))
           failure == JobFailure(mClips, sceneResults, mAudio)
       IN IF failure.returned
          THEN /\ mResult' = failure
               /\ mPc' = "done"
               /\ UNCHANGED <<mVideoUrls, mCalls, mCombine>>
          ELSE /\ mVideoUrls' = CombineInput(mClips, sceneResults)
               /\ mCalls' = [mCalls EXCEPT !.combine = @ + 1]
               /\ mCombine' = "running"
               /\ mPc' = "mkdtemp"
               /\ UNCHANGED mResult
    /\ UNCHANGED <<mClips, mEnv, mScene, mAudio, mDl, mOrder, mFs, mRm, mFfmpeg,
                   mMux>>
    /\ UNCHANGED mArgs
    /\ UNCHANGED mFrame

\* combineVideosWithAudio: mkdtempSync, then every download is started. If
\* mkdtempSync throws, tempDir is still null and the catch removes nothing.
MMkdtemp ==
    /\ mPc = "mkdtemp"
    /\ \E ok \in BOOLEAN :
          IF ok
          THEN /\ mFs' = [mFs EXCEPT !.dir = "exists"]
               /\ mDl' = [i \in 0..3 |->
                            IF i < Len(mVideoUrls) THEN "inflight" ELSE "none"]
               /\ mPc' = "download"
               /\ UNCHANGED <<mResult, mCombine>>
          ELSE /\ mResult' = Failure("Combine", <<>>)
               /\ mCombine' = "failed"
               /\ mPc' = "done"
               /\ UNCHANGED <<mFs, mDl>>
    /\ UNCHANGED <<mClips, mEnv, mScene, mAudio, mVideoUrls, mOrder, mRm, mFfmpeg,
                   mMux, mCalls>>
    /\ UNCHANGED mArgs
    /\ UNCHANGED mFrame

\* One download settles: fetch, arrayBuffer, writeFileSync(scene_<i>.mp4).
\* writeFileSync throws when the directory is gone. The first rejection
\* rejects the Promise.all, whose catch then runs; downloads still in
\* flight go on, also after generateClipMedia has returned.
MDownload(i) ==
    /\ mDl[i] = "inflight"
    /\ mOrder' = [mOrder EXCEPT !.dl = @ \/ \E j \in 0..(i - 1) : mDl[j] = "inflight"]
    /\ \E fetched \in BOOLEAN :
          IF fetched /\ mFs.dir = "exists"
          THEN /\ mFs' = [mFs EXCEPT !.scene[i] = mVideoUrls[i + 1]]
               /\ mDl' = [mDl EXCEPT ![i] = "done"]
               /\ UNCHANGED mPc
          ELSE /\ mDl' = [mDl EXCEPT ![i] = "failed"]
               /\ mPc' = IF mPc = "download" THEN "catch" ELSE mPc
               /\ UNCHANGED mFs
    /\ UNCHANGED <<mClips, mEnv, mScene, mAudio, mVideoUrls, mCombine, mRm, mFfmpeg,
                   mMux, mCalls, mResult>>
    /\ UNCHANGED mArgs
    /\ UNCHANGED mFrame

\* The catch block of combineVideosWithAudio after a failed download, and
\* the return of generateClipMedia that follows it.
MCombineCatch ==
    /\ mPc = "catch"
    /\ \E rmOk \in BOOLEAN :
          /\ mFs' = RmSync(mFs, rmOk)
          /\ mRm' = RmOutcome(rmOk)
    /\ mResult' = Failure("Combine", <<>>)
    /\ mCombine' = "failed"
    /\ mPc' = "done"
    /\ UNCHANGED <<mClips, mEnv, mScene, mAudio, mVideoUrls, mDl, mOrder, mFfmpeg,
                   mMux, mCalls>>
    /\ UNCHANGED mArgs
    /\ UNCHANGED mFrame

\* After the downloads: audio.mp3 and concat.txt are written, ffmpeg
\* concatenates the listed files and muxes the audio in. All of it is
\* synchronous; a failing ffmpeg run throws into the catch block.
MAssemble ==
    /\ mPc = "download"
    /\ \A i \in 0..(Len(mVideoUrls) - 1) : mDl[i] = "done"
    /\ LET videoFiles == VideoFiles(Len(mVideoUrls))
           written == [mFs EXCEPT !.audio = TRUE, !.concat = videoFiles]
           read == [k \in 1..Len(videoFiles) |-> mFs.scene[videoFiles[k]]]
       IN /\ mFfmpeg' = Append(mFfmpeg, read)
          /\ \E outcome \in {"ok", "concat_failed", "mux_failed"} :
                IF outcome = "ok"
                THEN /\ mFs' = [written EXCEPT !.final = TRUE]
                     /\ mCombine' = "ok"
                     /\ mPc' = "upload"
                     /\ UNCHANGED <<mRm, mResult>>
                ELSE /\ \E rmOk \in BOOLEAN :
                           /\ mFs' = RmSync(written, rmOk)
                           /\ mRm' = RmOutcome(rmOk)
                     /\ mResult' = Failure("Combine", <<>>)
                     /\ mCombine' = "failed"
                     /\ mPc' = "done"
    /\ UNCHANGED <<mClips, mEnv, mScene, mAudio, mVideoUrls, mDl, mOrder, mMux,
                   mCalls>>
    /\ UNCHANGED mArgs
    /\ UNCHANGED mFrame

\* uploadToMux up to the poll loop: getMuxClient, uploads.create, the PUT.
MUpload ==
    /\ mPc = "upload"
    /\ mCalls' = [mCalls EXCEPT !.upload = @ + 1]
    /\ \E outcome \in {"ok", "create_failed", "put_failed"} :
          IF mEnv.mux /\ outcome = "ok"
          THEN /\ mMux' = MuxNone
               /\ mPc' = "poll"
          ELSE /\ mMux' = [MuxNone EXCEPT !.result = "failed", !.error = "upload"]
               /\ mPc' = "cleanup"
    /\ UNCHANGED <<mClips, mEnv, mScene, mAudio, mVideoUrls, mCombine, mDl, mOrder,
                   mFs, mRm, mFfmpeg, mResult>>
    /\ UNCHANGED mArgs
    /\ UNCHANGED mFrame

\* One iteration of the poll loop of uploadToMux.
\*   throw      uploads.retrieve or assets.retrieve rejects
\*   noasset    the upload has no asset_id yet
\*   preparing  the asset is neither ready nor errored
\*   errored    the asset errored
\*   ready      the asset is ready and has a playback id
\*   ready_noid the asset is ready and has no playback id
MPoll ==
    /\ mPc = "poll"
    /\ PollAgain(mMux.attempts)
    /\ \E outcome \in {"throw", "noasset", "preparing", "errored", "ready", "ready_noid"} :
          /\ mMux' =
               [attempts |-> IF outcome \in {"noasset", "preparing"}
                             THEN mMux.attempts + 1 ELSE mMux.attempts,
                polls |-> mMux.polls + 1,
                asset |-> IF outcome \in {"throw", "noasset"} THEN mMux.asset
                          ELSE IF outcome = "ready_noid" THEN "ready" ELSE outcome,
                playbackId |-> outcome = "ready",
                result |-> IF outcome \in {"noasset", "preparing"} THEN "none"
                           ELSE IF outcome = "ready" THEN "ok" ELSE "failed",
                error |-> CASE outcome = "throw" -> "retrieve"
                            [] outcome = "errored" -> "Mux asset processing failed"
                            [] outcome = "ready_noid" -> "No playback ID returned from Mux"
                            [] OTHER -> "none"]
          /\ mPc' = IF outcome \in {"noasset", "preparing"} THEN "poll" ELSE "cleanup"
    /\ UNCHANGED <<mClips, mEnv, mScene, mAudio, mVideoUrls, mCombine, mDl, mOrder,
                   mFs, mRm, mFfmpeg, mCalls, mResult>>
    /\ UNCHANGED mArgs
    /\ UNCHANGED mFrame

\* The loop ends after maxAttempts without a ready asset: "Timed out".
MPollTimeout ==
    /\ mPc = "poll"
    /\ ~PollAgain(mMux.attempts)
    /\ mMux' = [mMux EXCEPT !.result = "failed",
                            !.error = "Timed out waiting for Mux to process video"]
    /\ mPc' = "cleanup"
    /\ UNCHANGED <<mClips, mEnv, mScene, mAudio, mVideoUrls, mCombine, mDl, mOrder,
                   mFs, mRm, mFfmpeg, mCalls, mResult>>
    /\ UNCHANGED mArgs
    /\ UNCHANGED mFrame

\* Mutant of MCleanup: the upload failure is returned before the cleanup.
MCleanupAfterFailureCheck ==
    /\ mPc = "cleanup"
    /\ IF mMux.result = "ok"
       THEN /\ \E rmOk \in BOOLEAN :
                  /\ mFs' = RmSync(mFs, rmOk)
                  /\ mRm' = RmOutcome(rmOk)
            /\ mResult' = Success(mClips, "playback", "asset")
       ELSE /\ mResult' = Failure("Mux upload", <<>>)
            /\ UNCHANGED <<mFs, mRm>>
    /\ mPc' = "done"
    /\ UNCHANGED <<mClips, mEnv, mScene, mAudio, mVideoUrls, mCombine, mDl, mOrder,
                   mFfmpeg, mMux, mCalls>>
    /\ UNCHANGED mArgs
    /\ UNCHANGED mFrame

\* await cleanupTempDir(combineResult.tempDir), then the return.
MCleanup ==
    /\ mPc = "cleanup"
    /\ \E rmOk \in BOOLEAN :
          /\ mFs' = RmSync(mFs, rmOk)
          /\ mRm' = RmOutcome(rmOk)
    /\ mResult' = IF mMux.result = "ok"
                  THEN Success(mClips, "playback", "asset")
                  ELSE Failure("Mux upload", <<>>)
    /\ mPc' = "done"
    /\ UNCHANGED <<mClips, mEnv, mScene, mAudio, mVideoUrls, mCombine, mDl, mOrder,
                   mFfmpeg, mMux, mCalls>>
    /\ UNCHANGED mArgs
    /\ UNCHANGED mFrame

MNext ==
    \/ MStart
    \/ \E i \in 0..3 : MSceneSettle(i)
    \/ MAudioSettle
    \/ MJoin
    \/ MMkdtemp
    \/ \E i \in 0..3 : MDownload(i)
    \/ MCombineCatch
    \/ MAssemble
    \/ MUpload
    \/ MPoll
    \/ MPollTimeout
    \/ MCleanup

(***************************************************************************)
(* Strings: a string is the sequence of its characters, so that includes,  *)
(* split, toLowerCase, slice and the regular expressions of the extraction *)
(* are computed character by character as JavaScript computes them.        *)
(***************************************************************************)

\* The letters A-Z and a-z, position by position.
UpperAlpha == <<"A", "B", "C", "D", "E", "F", "G", "H", "I", "J", "K", "L", "M", "N", "O", "P", "Q", "R", "S", "T", "U", "V", "W", "X", "Y", "Z">>

LowerAlpha == <<"a", "b", "c", "d", "e", "f", "g", "h", "i", "j", "k", "l", "m", "n", "o", "p", "q", "r", "s", "t", "u", "v", "w", "x", "y", "z">>

Digits == <<"0", "1", "2", "3", "4", "5", "6", "7", "8", "9">>

\* const knownBrands = [...]
knownBrands == <<
    <<"N", "i", "k", "e">>,
    <<"A", "d", "i", "d", "a", "s">>,
    <<"N", "e", "w", " ", "B", "a", "l", "a", "n", "c", "e">>,
    <<"P", "u", "m", "a">>,
    <<"R", "e", "e", "b", "o", "k">>,
    <<"A", "s", "i", "c", "s">>,
    <<"B", "r", "o", "o", "k", "s">>,
    <<"S", "a", "u", "c", "o", "n", "y">>,
    <<"H", "o", "k", "a">>,
    <<"O", "n", " ", "R", "u", "n", "n", "i", "n", "g">>,
    <<"O", "n", " ", "C", "l", "o", "u", "d">>,
    <<"J", "o", "r", "d", "a", "n">>,
    <<"C", "o", "n", "v", "e", "r", "s", "e">>,
    <<"V", "a", "n", "s">>,
    <<"T", "i", "m", "b", "e", "r", "l", "a", "n", "d">>,
    <<"D", "r", ".", " ", "M", "a", "r", "t", "e", "n", "s">>,
    <<"U", "G", "G">>,
    <<"C", "l", "a", "r", "k", "s">>,
    <<"A", "p", "p", "l", "e">>,
    <<"S", "a", "m", "s", "u", "n", "g">>,
    <<"S", "o", "n", "y">>,
    <<"B", "o", "s", "e">>,
    <<"G", "o", "o", "g", "l", "e">>,
    <<"M", "i", "c", "r", "o", "s", "o", "f", "t">>,
    <<"D", "e", "l", "l">>,
    <<"H", "P">>,
    <<"L", "e", "n", "o", "v", "o">>,
    <<"A", "s", "u", "s">>,
    <<"B", "e", "a", "t", "s">>,
    <<"J", "B", "L">>,
    <<"S", "e", "n", "n", "h", "e", "i", "s", "e", "r">>,
    <<"J", "a", "b", "r", "a">>,
    <<"N", "o", "t", "h", "i", "n", "g">>,
    <<"O", "n", "e", "P", "l", "u", "s">>,
    <<"X", "i", "a", "o", "m", "i">>,
    <<"O", "p", "p", "o">>,
    <<"L", "u", "l", "u", "l", "e", "m", "o", "n">>,
    <<"U", "n", "d", "e", "r", " ", "A", "r", "m", "o", "u", "r">>,
    <<"G", "y", "m", "s", "h", "a", "r", "k">>,
    <<"A", "t", "h", "l", "e", "t", "a">>,
    <<"N", "o", "r", "t", "h", " ", "F", "a", "c", "e">>,
    <<"P", "a", "t", "a", "g", "o", "n", "i", "a">>,
    <<"C", "o", "l", "u", "m", "b", "i", "a">>,
    <<"A", "r", "c", "'", "t", "e", "r", "y", "x">>,
    <<"G", "a", "p">>,
    <<"H", "&", "M">>,
    <<"Z", "a", "r", "a">>,
    <<"U", "n", "i", "q", "l", "o">>,
    <<"C", "e", "r", "a", "V", "e">>,
    <<"T", "h", "e", " ", "O", "r", "d", "i", "n", "a", "r", "y">>,
    <<"L", "a", " ", "R", "o", "c", "h", "e", "-", "P", "o", "s", "a", "y">>,
    <<"D", "r", "u", "n", "k", " ", "E", "l", "e", "p", "h", "a", "n", "t">>,
    <<"T", "a", "t", "c", "h", "a">>,
    <<"M", "a", "y", "b", "e", "l", "l", "i", "n", "e">>,
    <<"L", "'", "O", "r", "e", "a", "l">>,
    <<"M", "A", "C">>,
    <<"F", "e", "n", "t", "y">>,
    <<"D", "y", "s", "o", "n">>,
    <<"V", "i", "t", "a", "m", "i", "x">>,
    <<"N", "i", "n", "j", "a">>,
    <<"K", "i", "t", "c", "h", "e", "n", "A", "i", "d">>,
    <<"C", "a", "s", "p", "e", "r">>,
    <<"P", "u", "r", "p", "l", "e">>,
    <<"T", "e", "m", "p", "u", "r", "-", "P", "e", "d", "i", "c">>,
    <<"R", "o", "o", "m", "b", "a">>,
    <<"S", "h", "a", "r", "k">>,
    <<"F", "i", "t", "b", "i", "t">>,
    <<"G", "a", "r", "m", "i", "n">>,
    <<"W", "h", "o", "o", "p">>,
    <<"P", "e", "l", "o", "t", "o", "n">>,
    <<"N", "o", "r", "d", "i", "c", "T", "r", "a", "c", "k">>
    >>

\* (?:ad|commercial|review|vs|comparison)
TitleKeywords == <<
    <<"a", "d">>,
    <<"c", "o", "m", "m", "e", "r", "c", "i", "a", "l">>,
    <<"r", "e", "v", "i", "e", "w">>,
    <<"v", "s">>,
    <<"c", "o", "m", "p", "a", "r", "i", "s", "o", "n">>
    >>

\* (?:official|brand|channel)
ChannelKeywords == <<
    <<"o", "f", "f", "i", "c", "i", "a", "l">>,
    <<"b", "r", "a", "n", "d">>,
    <<"c", "h", "a", "n", "n", "e", "l">>
    >>

\* the literal "by" of the second title pattern
ByWord == <<"b", "y">>

\* the placeholder "Competitor Brand"
CompetitorBrand == <<"C", "o", "m", "p", "e", "t", "i", "t", "o", "r", " ", "B", "r", "a", "n", "d">>

UpperLetters == {UpperAlpha[k] : k \in 1..Len(UpperAlpha)}

LowerLetters == {LowerAlpha[k] : k \in 1..Len(LowerAlpha)}

DigitChars == {Digits[k] : k \in 1..Len(Digits)}

\* [A-Z]
IsUpper(c) == c \in UpperLetters

\* [A-Z] under the i flag
IsLetter(c) == c \in UpperLetters \/ c \in LowerLetters

\* [a-zA-Z0-9]
IsAlnum(c) == IsLetter(c) \/ c \in DigitChars

\* \s
IsSpace(c) == c = " "

LowerOf == [c \in UpperLetters |-> LowerAlpha[CHOOSE k \in 1..Len(UpperAlpha) : UpperAlpha[k] = c]]

LowerChar(c) == IF c \in UpperLetters THEN LowerOf[c] ELSE c

\* a sequence given element by element, as the array it denotes
Built(s) == s \o <<>>

\* String.prototype.toLowerCase
ToLower(s) == Built([i \in 1..Len(s) |-> LowerChar(s[i])])

\* p occurs in s at position i
MatchAt(s, p, i) ==
    /\ i >= 1
    /\ i + Len(p) - 1 <= Len(s)
    /\ \A k \in 1..Len(p) : s[i + k - 1] = p[k]

\* String.prototype.includes
Includes(s, p) == \E i \in 1..(Len(s) + 1) : MatchAt(s, p, i)

\* String.prototype.indexOf(p, from), 1-based; 0 when p does not occur.
IndexFrom(s, p, from) ==
    IF \E i \in from..Len(s) : MatchAt(s, p, i)
    THEN CHOOSE i \in from..Len(s) :
            MatchAt(s, p, i) /\ \A j \in from..(i - 1) : ~MatchAt(s, p, j)
    ELSE 0

\* s.split(p).length: the pieces are cut at the occurrences of p found from
\* left to right, each search starting after the previous occurrence; the
\* empty separator cuts between every two characters.
RECURSIVE SplitLengthFrom(_, _, _)
SplitLengthFrom(s, p, from) ==
    LET i == IndexFrom(s, p, from)
    IN IF i = 0 THEN 1 ELSE 1 + SplitLengthFrom(s, p, i + Len(p))

SplitLength(s, p) == IF p = <<>> THEN Len(s) ELSE SplitLengthFrom(s, p, 1)

\* end of the longest run of [a-zA-Z0-9] that starts at i (i - 1: no run)
AlnumRunEnd(s, i) ==
    CHOOSE e \in (i - 1)..Len(s) :
        /\ \A k \in i..e : IsAlnum(s[k])
        /\ (e = Len(s) \/ ~IsAlnum(s[e + 1]))

\* end of the longest run of \s that starts at i (i - 1: no run)
SpaceRunEnd(s, i) ==
    CHOOSE e \in (i - 1)..Len(s) :
        /\ \A k \in i..e : IsSpace(s[k])
        /\ (e = Len(s) \/ ~IsSpace(s[e + 1]))

\* [A-Z][a-zA-Z0-9]+ under the i flag, matched greedily at position i: the
\* end of the match, 0 when there is none. What follows the word in every
\* pattern is \s or nothing, so a shorter match never helps.
WordEndAt(s, i) ==
    IF i >= 1 /\ i <= Len(s) /\ IsLetter(s[i]) /\ AlnumRunEnd(s, i) >= i + 1
    THEN AlnumRunEnd(s, i) ELSE 0

\* \s+(?:kw1|kw2|...) under the i flag at position i
SpacesThenKeywordAt(s, i, keywords) ==
    LET e == SpaceRunEnd(s, i)
    IN /\ i <= Len(s)
       /\ e >= i
       /\ \E k \in 1..Len(keywords) : MatchAt(ToLower(s), keywords[k], e + 1)

\* ([A-Z][a-zA-Z0-9]+(?:\s+[A-Z][a-zA-Z0-9]+)?) under the i flag at
\* position i, when nothing has to follow: the end of the capture (0: no match)
OneOrTwoWordsEndAt(s, i) ==
    LET e1 == WordEndAt(s, i)
        sp == SpaceRunEnd(s, e1 + 1)
        e2 == WordEndAt(s, sp + 1)
    IN IF e1 = 0 THEN 0
       ELSE IF sp >= e1 + 1 /\ e2 > 0 THEN e2
       ELSE e1

\* title.match(/^([A-Z][a-zA-Z0-9]+(?:\s+[A-Z][a-zA-Z0-9]+)?)\s+(?:ad|commercial|review|vs|comparison)/i)
\* The capture, <<>> when the pattern does not match. The two-word form is
\* tried first (the optional group is greedy).
MatchLeadingBrand(title) ==
    LET e1 == WordEndAt(title, 1)
        sp == SpaceRunEnd(title, e1 + 1)
        e2 == WordEndAt(title, sp + 1)
    IN IF e1 = 0 THEN <<>>
       ELSE IF sp >= e1 + 1 /\ e2 > 0 /\ SpacesThenKeywordAt(title, e2 + 1, TitleKeywords)
       THEN SubSeq(title, 1, e2)
       ELSE IF SpacesThenKeywordAt(title, e1 + 1, TitleKeywords)
       THEN SubSeq(title, 1, e1)
       ELSE <<>>

\* title.match(/by\s+([A-Z][a-zA-Z0-9]+(?:\s+[A-Z][a-zA-Z0-9]+)?)/i): the
\* leftmost "by" that is followed by spaces and a word.
ByMatchAt(title, i) ==
    /\ MatchAt(ToLower(title), ByWord, i)
    /\ SpaceRunEnd(title, i + 2) >= i + 2
    /\ OneOrTwoWordsEndAt(title, SpaceRunEnd(title, i + 2) + 1) > 0

MatchByBrand(title) ==
    IF \E i \in 1..Len(title) : ByMatchAt(title, i)
    THEN LET i == CHOOSE i \in 1..Len(title) :
                     ByMatchAt(title, i) /\ \A j \in 1..(i - 1) : ~ByMatchAt(title, j)
             b == SpaceRunEnd(title, i + 2) + 1
         IN SubSeq(title, b, OneOrTwoWordsEndAt(title, b))
    ELSE <<>>

\* title.match(/([A-Z][a-zA-Z0-9]+)\s+(?:official|brand|channel)/i): the
\* leftmost position where a word followed by spaces and a keyword starts.
ChannelMatchAt(title, i) ==
    /\ WordEndAt(title, i) > 0
    /\ SpacesThenKeywordAt(title, WordEndAt(title, i) + 1, ChannelKeywords)

MatchChannelBrand(title) ==
    IF \E i \in 1..Len(title) : ChannelMatchAt(title, i)
    THEN LET i == CHOOSE i \in 1..Len(title) :
                     ChannelMatchAt(title, i) /\ \A j \in 1..(i - 1) : ~ChannelMatchAt(title, j)
         IN SubSeq(title, i, WordEndAt(title, i))
    ELSE <<>>

\* title.match(/^([A-Z][a-zA-Z0-9]+)/): case-sensitive
MatchFirstWord(title) ==
    IF Len(title) >= 2 /\ IsUpper(title[1]) /\ AlnumRunEnd(title, 2) >= 2
    THEN SubSeq(title, 1, AlnumRunEnd(title, 2))
    ELSE <<>>

(***************************************************************************)
(* runSearchResearch, competitor ads: the scraped results of the           *)
(* competitor-ad queries are filtered, cut to 8, attributed to a brand     *)
(* and deduplicated by the attributed name.                                *)
(***************************************************************************)

\* text.split(originalBrand).length > 3
BrandSplitLimit == 3

\* .slice(0, 8)
AdSliceLimit == 8

\* competitorName.slice(0, 50)
NameSliceLimit == 50

\* title.slice(0, 100)
TitleSliceLimit == 100

\* firstWord[1].length > 2
FirstWordMinLength == 2

Space == <<" ">>

\* (r.title + " " + (r.content || "") + " " + (r.description || "")).toLowerCase()
AdText(r) == ToLower(r.title \o Space \o r.content \o Space \o r.description)

\* a filter that lets candidates with up to 4 mentions pass
BrandHeavyAbove5(text, originalBrand) ==
    originalBrand # <<>> /\ SplitLength(text, originalBrand) > 5

\* originalBrand && text.split(originalBrand).length > 3
BrandHeavy(text, originalBrand) ==
    originalBrand # <<>> /\ SplitLength(text, originalBrand) > BrandSplitLimit

\* the .filter(...).slice(0, 8) in front of the attribution
AdCandidates(competitorAdResults, brand) ==
    SliceTo(SelectSeq(competitorAdResults,
                      LAMBDA r : ~BrandHeavy(AdText(r), ToLower(brand))),
            AdSliceLimit)

\* r.content || r.description || ""
ContentOrDescription(r) == IF r.content # <<>> THEN r.content ELSE r.description

\* the for loop over knownBrands from entry k on: the first known brand
\* that is not the researched brand and occurs in the lower-cased text
\* knownBrand.toLowerCase() of every entry
knownBrandsLower == Built([k \in 1..Len(knownBrands) |-> ToLower(knownBrands[k])])

RECURSIVE KnownBrandFrom(_, _, _)
KnownBrandFrom(k, fullTextLower, originalBrandLower) ==
    IF k > Len(knownBrands) THEN <<>>
    ELSE IF /\ knownBrandsLower[k] # originalBrandLower
            /\ Includes(fullTextLower, knownBrandsLower[k])
    THEN knownBrands[k]
    ELSE KnownBrandFrom(k + 1, fullTextLower, originalBrandLower)

KnownBrandIn(fullText, originalBrandLower) ==
    KnownBrandFrom(1, ToLower(fullText), originalBrandLower)

\* match && match[1] && match[1].toLowerCase() !== originalBrandLower
OtherThanBrand(capture, originalBrandLower) ==
    IF capture # <<>> /\ ToLower(capture) # originalBrandLower THEN capture ELSE <<>>

\* competitorName after the attempts a, b, c made in this order
FirstFound(a, b, c) == IF a # <<>> THEN a ELSE IF b # <<>> THEN b ELSE c

\* the for loop over brandPatterns: the capture of the first pattern that
\* matches with a capture other than the researched brand
TitlePatternBrand(title, originalBrandLower) ==
    FirstFound(OtherThanBrand(MatchLeadingBrand(title), originalBrandLower),
               OtherThanBrand(MatchByBrand(title), originalBrandLower),
               OtherThanBrand(MatchChannelBrand(title), originalBrandLower))

\* the last fallback: the first capitalized word of the title
FirstWordBrand(title) ==
    IF Len(MatchFirstWord(title)) > FirstWordMinLength
    THEN MatchFirstWord(title)
    ELSE CompetitorBrand

CompetitorName(r, brand) ==
    FirstFound(KnownBrandIn(r.title \o Space \o ContentOrDescription(r), ToLower(brand)),
               TitlePatternBrand(r.title, ToLower(brand)),
               FirstWordBrand(r.title))

\* the object the .map returns (platform, description and source are
\* derived from the url and the description alone)
CompetitorAdOf(r, brand) ==
    [competitorName |-> SliceTo(CompetitorName(r, brand), NameSliceLimit),
     title |-> SliceTo(r.title, TitleSliceLimit),
     url |-> r.url]

RECURSIVE KeepFrom(_, _, _)
KeepFrom(s, keep, i) ==
    IF i > Len(s) THEN <<>>
    ELSE (IF i \in keep THEN <<s[i]>> ELSE <<>>) \o KeepFrom(s, keep, i + 1)

\* Mutant of DedupByName: the last entry of each name is kept (findLastIndex).
DedupByNameKeepLast(ads) ==
    KeepFrom(ads,
             {i \in 1..Len(ads) :
                 \A j \in (i + 1)..Len(ads) : ads[j].competitorName # ads[i].competitorName},
             1)

\* .filter((ad, idx, arr) => arr.findIndex(a => a.competitorName === ad.competitorName) === idx)
DedupByName(ads) ==
    KeepFrom(ads,
             {i \in 1..Len(ads) :
                 \A j \in 1..(i - 1) : ads[j].competitorName # ads[i].competitorName},
             1)

\* the .map over the candidates
AttributeAds(candidates, brand) ==
    Built([i \in 1..Len(candidates) |-> CompetitorAdOf(candidates[i], brand)])

ExtractCompetitorAds(competitorAdResults, brand) ==
    DedupByName(AttributeAds(AdCandidates(competitorAdResults, brand), brand))

\* Brands of the researched product used as inputs.
Acme == <<"A", "c", "m", "e">>

NikeBrand == <<"N", "i", "k", "e">>

Coco == <<"C", "o", "c", "o">>

\* Titles of search results used as inputs.
InputTitles == <<
    <<"A", "c", "m", "e", " ", "r", "e", "v", "i", "e", "w", " ", "o", "f", " ", "s", "h", "o", "e", "s">>,
    <<"N", "i", "k", "e", " ", "A", "i", "r", " ", "r", "e", "v", "i", "e", "w">>,
    <<"T", "o", "p", " ", "s", "h", "o", "e", "s", " ", "b", "y", " ", "Z", "o", "o", "m", " ", "L", "a", "b", "s">>,
    <<"Z", "o", "o", "m", " ", "o", "f", "f", "i", "c", "i", "a", "l", " ", "c", "h", "a", "n", "n", "e", "l">>,
    <<"b", "e", "s", "t", " ", "s", "h", "o", "e", "s", " ", "2", "0", "2", "4">>,
    <<"G", "o", " ", "r", "u", "n">>,
    <<"A", "c", "m", "e", " ", "o", "f", "f", "i", "c", "i", "a", "l", " ", "s", "t", "o", "r", "e">>,
    <<"A", "d", "i", "d", "a", "s", " ", "a", "d">>,
    <<"R", "u", "n", "n", "e", "r", " ", "v", "s", " ", "A", "c", "m", "e">>
    >>

\* Text between two mentions of the brand.
Filler == <<" ", "x", " ">>

\* A scraped page naming a known brand.
SponsoredByPuma == <<"S", "p", "o", "n", "s", "o", "r", "e", "d", " ", "b", "y", " ", "P", "u", "m", "a">>

\* A search description naming Acme once.
AcmeFans == <<"A", "c", "m", "e", " ", "f", "a", "n", "s">>

(***************************************************************************)
(* The extraction as a function of its inputs: a brand and a list of       *)
(* scraped competitor-ad results.                                          *)
(***************************************************************************)

\* most mentions of the brand in one generated content
MaxMentions == 5

\* longest list of results given to the extraction
MaxCands == 2

InputBrands == {<<>>, Acme, NikeBrand, Coco}

\* the brand k times, apart (with text between the mentions) or glued
RECURSIVE Mentions(_, _, _)
Mentions(brand, k, glued) ==
    IF k = 0 THEN <<>>
    ELSE IF k = 1 THEN brand
    ELSE brand \o (IF glued THEN <<>> ELSE Filler) \o Mentions(brand, k - 1, glued)

\* scraped contents: none (failed or empty scrape), a page naming another
\* brand, and pages mentioning the researched brand, in either case
InputContents(brand) ==
    {<<>>, SponsoredByPuma}
    \cup {Mentions(brand, k, g) : k \in 1..MaxMentions, g \in BOOLEAN}
    \cup {Mentions(ToLower(brand), k, FALSE) : k \in 3..MaxMentions}

InputDescriptions == {<<>>, AcmeFans}

InputResults(brand) ==
    [title : Range(InputTitles), content : InputContents(brand),
     description : InputDescriptions]

\* lists of one result of any shape and lists of results that differ in
\* their titles only
InputLists(brand) ==
    {<<r>> : r \in InputResults(brand)}
    \cup UNION {[1..n -> [title : Range(InputTitles), content : {<<>>},
                          description : {<<>>}]] : n \in 2..MaxCands}

WithUrls(list) ==
    [i \in 1..Len(list) |->
        [url |-> i, title |-> list[i].title, description |-> list[i].description,
         content |-> list[i].content, queryType |-> "competitorAd"]]

XInit ==
    /\ xPc = "input"
    /\ xBrand \in InputBrands
    /\ \E list \in InputLists(xBrand) : xResults = WithUrls(list)
    /\ xAds = <<>>

XIdle ==
    /\ xPc = "idle"
    /\ xBrand = <<>>
    /\ xResults = <<>>
    /\ xAds = <<>>

XExtract ==
    /\ xPc = "input"
    /\ xAds' = ExtractCompetitorAds(xResults, xBrand)
    /\ xPc' = "done"
    /\ UNCHANGED <<xBrand, xResults>>
    /\ UNCHANGED xFrame

XNext == XExtract

(***************************************************************************)
(* Research orchestrator: scrapeProductUrl, refreshProductResearch,        *)
(* runSearchResearch and the fallback runMarketResearch.                   *)
(***************************************************************************)

\* URLs are 1..MaxUrl; every URL has one page
MaxUrl == 8

\* most items one search answers
MaxItems == 3

\* furthest the answer of a query is shifted against the previous query's
MaxStride == 2

\* most entries an agent answers
MaxAgent == 7

\* the queries array has 11 entries
QueryCount == 11

Queries == 0..(QueryCount - 1)

\* const scrapeLimit = 6
scrapeLimit == 6

\* painPointResults.slice(0, 6)
PainPointLimit == 6

\* competitorResults.slice(0, 6)
CompetitorLimit == 6

\* result?.markdown?.slice(0, 3000)
ContentSliceLimit == 3000

\* issue.slice(0, 150)
IssueSliceLimit == 150

\* the intent boundaries moved by one query
QueryTypeOffByOne(i) ==
    IF i <= 3 THEN "painpoint" ELSE IF i <= 6 THEN "competitor" ELSE "competitorAd"

\* i < 3 ? "painpoint" : i < 6 ? "competitor" : "competitorAd"
QueryType(i) == IF i < 3 THEN "painpoint" ELSE IF i < 6 THEN "competitor" ELSE "competitorAd"

\* The search service: the item it knows at position p. Position 0 is an
\* item without url, position MaxUrl an item without title; urls are
\* numbers, 0 standing for a missing url.
TitleOf(p) ==
    IF p = MaxUrl THEN <<>>
    ELSE IF p = 0 THEN InputTitles[1]
    ELSE InputTitles[((p - 1) % Len(InputTitles)) + 1]

DescriptionOf(p) == IF p % 2 = 0 THEN AcmeFans ELSE <<>>

SearchItem(p) == [url |-> p, title |-> TitleOf(p), description |-> DescriptionOf(p)]

\* the items of one answer: count consecutive positions from first on
SearchItems(first, count) ==
    Built([k \in 1..count |-> SearchItem((first + k - 1) % (MaxUrl + 1))])

\* the queries whose results are not competitor ads
NonAdQueries == {i \in Queries : QueryType(i) # "competitorAd"}

\* the first query of each intent
FirstQueries == {i \in Queries : i = 0 \/ QueryType(i) # QueryType(i - 1)}

\* the sets of queries that fail (throw) in one run: none, the first of an
\* intent, those of the pain point and competitor intents, or all
FailedSets == {{}, Queries, NonAdQueries} \cup {{q} : q \in FirstQueries}

\* what firecrawl.search answers to query i: it fails if i is in failed,
\* and otherwise answers count items, shifted by stride from the answer to
\* query i - 1
SearchResponse(i, offset, stride, count, failed) ==
    IF i \in failed THEN [ok |-> FALSE, items |-> <<>>]
    ELSE [ok |-> TRUE, items |-> SearchItems(offset + i * stride, count)]

\* the markdown of the page of a url
MarkdownOf(u) ==
    IF u % 3 = 0 THEN SponsoredByPuma
    ELSE IF u % 3 = 1 THEN <<>>
    ELSE Mentions(Acme, 4, FALSE)

\* which scrapes fail (throw) in one run
ScrapeFailures == {"none", "odd", "all"}

ScrapeFails(failures, u) ==
    \/ failures = "all"
    \/ failures = "odd" /\ u % 2 = 1

\* item => ({ url, title, description: item.description || "", queryType })
TaggedItem(item, queryType) ==
    [url |-> item.url, title |-> item.title, description |-> item.description,
     queryType |-> queryType]

TagItems(items, queryType) ==
    Built([k \in 1..Len(items) |-> TaggedItem(items[k], queryType)])

\* one searchPromises entry: the try block and its catch
SearchPromise(i, response) ==
    IF ~response.ok THEN <<>>
    ELSE TagItems(SelectSeq(response.items, LAMBDA item : item.url # 0 /\ item.title # <<>>),
                  QueryType(i))

\* for (const results of searchResults) urlsToScrape.push(...results)
RECURSIVE Flatten(_, _)
Flatten(searchResults, i) ==
    IF i >= QueryCount THEN <<>>
    ELSE searchResults[i] \o Flatten(searchResults, i + 1)

\* the merged results without deduplication
UniqueUrlsNoDedup(urlsToScrape) == urlsToScrape

\* urlsToScrape.filter((item, i, arr) => arr.findIndex((x) => x.url === item.url) === i)
UniqueUrls(urlsToScrape) ==
    KeepFrom(urlsToScrape,
             {i \in 1..Len(urlsToScrape) :
                 \A j \in 1..(i - 1) : urlsToScrape[j].url # urlsToScrape[i].url},
             1)

\* uniqueUrls.filter(u => u.queryType === type).slice(0, scrapeLimit)
UrlsOfType(uniqueUrls, type) ==
    SliceTo(SelectSeq(uniqueUrls, LAMBDA u : u.queryType = type), scrapeLimit)

\* [...painPointUrls, ...competitorUrls, ...competitorAdUrls]
ScrapeListOf(uniqueUrls) ==
    UrlsOfType(uniqueUrls, "painpoint") \o UrlsOfType(uniqueUrls, "competitor")
    \o UrlsOfType(uniqueUrls, "competitorAd")

ScrapeList(urlsToScrape) == ScrapeListOf(UniqueUrls(urlsToScrape))

\* a scrapeUrl whose catch returns the url alone
ScrapeUrlBareOnFailure(item, fails) ==
    [title |-> IF fails THEN <<>> ELSE item.title,
     url |-> item.url,
     description |-> IF fails THEN <<>> ELSE item.description,
     content |-> IF fails THEN <<>> ELSE SliceTo(MarkdownOf(item.url), ContentSliceLimit),
     queryType |-> item.queryType]

\* scrapeUrl: the try block and its catch
ScrapeUrl(item, fails) ==
    [title |-> item.title, url |-> item.url, description |-> item.description,
     content |-> IF fails THEN <<>> ELSE SliceTo(MarkdownOf(item.url), ContentSliceLimit),
     queryType |-> item.queryType]

\* the object the painPoints .map returns. The contents of the modelled
\* pages have at most 50 characters, so the issue is the title; frequency,
\* sentiment and source are computed from the text and the url of r alone.
PainPointOf(r) == [issue |-> SliceTo(r.title, IssueSliceLimit), url |-> r.url]

\* the object the competitors .map returns; productName, brand, price,
\* keyDifference and source are computed from r alone.
CompetitorOf(r) == [url |-> r.url]

NoResearch ==
    [defined |-> FALSE, painPoints |-> <<>>, competitors |-> <<>>,
     competitorAds |-> <<>>, summary |-> FALSE, sources |-> <<>>]

\* { painPoints: [], competitors: [], competitorAds: [], sources: [] }
EmptyResearch == [NoResearch EXCEPT !.defined = TRUE]

\* await Promise.all(scrapePromises) and the loop filling allResults
ScrapeAll(scrapeList, failures) ==
    Built([k \in 1..Len(scrapeList) |->
              ScrapeUrl(scrapeList[k], ScrapeFails(failures, scrapeList[k].url))])

ResultsOfType(allResults, type) == SelectSeq(allResults, LAMBDA r : r.queryType = type)

\* painPointResults.slice(0, 6).map(...)
PainPoints(painPointResults) ==
    Built([k \in 1..Len(SliceTo(painPointResults, PainPointLimit)) |->
              PainPointOf(painPointResults[k])])

\* competitorResults.slice(0, 6).map(...)
Competitors(competitorResults) ==
    Built([k \in 1..Len(SliceTo(competitorResults, CompetitorLimit)) |->
              CompetitorOf(competitorResults[k])])

\* the object runSearchResearch returns
ResearchOf(painPoints, competitors, competitorAds, allResults) ==
    [defined |-> TRUE,
     painPoints |-> painPoints,
     competitors |-> competitors,
     competitorAds |-> competitorAds,
     summary |-> Len(painPoints) > 0 \/ Len(competitors) > 0 \/ Len(competitorAds) > 0,
     sources |-> Built([k \in 1..Len(allResults) |-> allResults[k].url])]

\* runSearchResearch from "Transform scraped results" to its return
SearchResearch(allResults, brand) ==
    ResearchOf(PainPoints(ResultsOfType(allResults, "painpoint")),
               Competitors(ResultsOfType(allResults, "competitor")),
               ExtractCompetitorAds(ResultsOfType(allResults, "competitorAd"), brand),
               allResults)

\* what one runAgentResearch call resolves to: the agent threw or answered
\* without success or data (data null), or answered count entries and, as
\* sources, the urls 1..count
AgentOutcomes ==
    {[data |-> FALSE, count |-> 0]} \cup {[data |-> TRUE, count |-> n] : n \in 0..MaxAgent}

AgentSources(outcome) == Built([k \in 1..outcome.count |-> k])

\* .filter((s, i, arr) => arr.indexOf(s) === i)
DedupSources(sources) ==
    KeepFrom(sources,
             {i \in 1..Len(sources) : \A j \in 1..(i - 1) : sources[j] # sources[i]},
             1)

\* runMarketResearch: the entries of the agents carry no url
MarketResearchOf(painPointsResult, competitorResult) ==
    [defined |-> TRUE,
     painPoints |-> Built([k \in 1..painPointsResult.count |-> [issue |-> <<>>, url |-> 0]]),
     competitors |-> Built([k \in 1..competitorResult.count |-> [url |-> 0]]),
     competitorAds |-> <<>>,
     summary |-> FALSE,
     sources |-> DedupSources(AgentSources(painPointsResult) \o AgentSources(competitorResult))]

NoOut == [kind |-> "none", success |-> FALSE, error |-> "", research |-> NoResearch]

\* ScrapeResult { success: false, error }
ScrapeFailure(error) == [NoOut EXCEPT !.kind = "ScrapeResult", !.error = error]

\* ScrapeResult { success: true, data, url, research }
ScrapeSuccess(research) ==
    [kind |-> "ScrapeResult", success |-> TRUE, error |-> "", research |-> research]

\* the MarketResearch refreshProductResearch returns
RefreshResult(research) ==
    [kind |-> "MarketResearch", success |-> TRUE, error |-> "", research |-> research]

\* the fallback condition without its competitorAds conjunct
SearchFoundNothingIgnoringAds(research) ==
    /\ Len(research.painPoints) = 0
    /\ Len(research.competitors) = 0

\* research.painPoints.length === 0 && research.competitors.length === 0 &&
\* (research.competitorAds?.length ?? 0) === 0
SearchFoundNothing(research) ==
    /\ Len(research.painPoints) = 0
    /\ Len(research.competitors) = 0
    /\ Len(research.competitorAds) = 0

\* agentResearch.painPoints.length > 0 || agentResearch.competitors.length > 0
AgentFoundSomething(agentResearch) ==
    Len(agentResearch.painPoints) > 0 \/ Len(agentResearch.competitors) > 0

ResearchBrands == {<<>>, Acme}

RInputs ==
    [op : {"scrape"}, key : BOOLEAN, urlValid : BOOLEAN, enableResearch : BOOLEAN,
     brand : ResearchBrands]
    \cup [op : {"refresh"}, key : BOOLEAN, urlValid : {TRUE}, enableResearch : {TRUE},
          brand : ResearchBrands]

NoSearchResults == [i \in Queries |-> <<>>]

\* no search has been answered yet
NoResponses == [i \in Queries |-> [ok |-> FALSE, items |-> <<>>]]

RInit ==
    /\ rPc = "call"
    /\ rIn \in RInputs
    /\ rSearchResults = NoSearchResults
    /\ rUrlsToScrape = <<>>
    /\ rScrapeList = <<>>
    /\ rAllResults = <<>>
    /\ rResearch = NoResearch
    /\ rAgent = NoResearch
    /\ rOut = NoOut
    /\ rResponses = NoResponses
    /\ rScrapeFailed = {}
    /\ rFallback = "none"

RIdle ==
    /\ rPc = "idle"
    /\ rIn = [op |-> "none", key |-> FALSE, urlValid |-> FALSE,
              enableResearch |-> FALSE, brand |-> <<>>]
    /\ rSearchResults = NoSearchResults
    /\ rUrlsToScrape = <<>>
    /\ rScrapeList = <<>>
    /\ rAllResults = <<>>
    /\ rResearch = NoResearch
    /\ rAgent = NoResearch
    /\ rOut = NoOut
    /\ rResponses = NoResponses
    /\ rScrapeFailed = {}
    /\ rFallback = "none"

\* scrapeProductUrl up to the await of the product page scrape: new URL(url),
\* getFirecrawl(), firecrawl.scrape(url, ...)
RScrapeProductUrl ==
    /\ rPc = "call"
    /\ rIn.op = "scrape"
    /\ IF ~rIn.urlValid
       THEN rPc' = "done" /\ rOut' = ScrapeFailure("Invalid URL format")
       ELSE IF ~rIn.key
       THEN rPc' = "done" /\ rOut' = ScrapeFailure("Firecrawl API key not configured")
       ELSE rPc' = "product" /\ UNCHANGED rOut
    /\ UNCHANGED <<rIn, rSearchResults, rUrlsToScrape, rScrapeList, rAllResults,
                   rResearch, rAgent, rResponses, rScrapeFailed, rFallback>>
    /\ UNCHANGED rFrame

\* the product page scrape settles: it threw, answered without json,
\* answered a product without title, or answered a product with a title;
\* with research enabled and a title, runSearchResearch issues the 11
\* searches
RProductSettle ==
    /\ rPc = "product"
    /\ \E product \in {"throw", "nojson", "notitle", "ok"} :
          IF product = "throw"
          THEN rPc' = "done" /\ rOut' = ScrapeFailure("Failed to scrape product information")
          ELSE IF product = "nojson"
          THEN rPc' = "done"
               /\ rOut' = ScrapeFailure("Failed to scrape the page - no data returned")
          ELSE IF rIn.enableResearch /\ product = "ok"
          THEN rPc' = "search" /\ UNCHANGED rOut
          ELSE rPc' = "done" /\ rOut' = ScrapeSuccess(NoResearch)
    /\ UNCHANGED <<rIn, rSearchResults, rUrlsToScrape, rScrapeList, rAllResults,
                   rResearch, rAgent, rResponses, rScrapeFailed, rFallback>>
    /\ UNCHANGED rFrame

\* refreshProductResearch up to the await of the searches: getFirecrawl()
\* throws into the catch without a key
RRefreshProductResearch ==
    /\ rPc = "call"
    /\ rIn.op = "refresh"
    /\ IF ~rIn.key
       THEN rPc' = "done" /\ rOut' = RefreshResult(EmptyResearch)
       ELSE rPc' = "search" /\ UNCHANGED rOut
    /\ UNCHANGED <<rIn, rSearchResults, rUrlsToScrape, rScrapeList, rAllResults,
                   rResearch, rAgent, rResponses, rScrapeFailed, rFallback>>
    /\ UNCHANGED rFrame

\* await Promise.all(searchPromises) resolves: the results are flattened
\* in query order, deduplicated, cut per intent, and the scrapes are issued
RSearchSettleOver(offsets, strides, counts, failedSets) ==
    /\ rPc = "search"
    /\ \E offset \in offsets, stride \in strides, count \in counts,
          failed \in failedSets :
          /\ rResponses' =
                [i \in Queries |-> SearchResponse(i, offset, stride, count, failed)]
          /\ rSearchResults' = [i \in Queries |-> SearchPromise(i, rResponses'[i])]
          /\ rUrlsToScrape' = Flatten(rSearchResults', 0)
          /\ rScrapeList' = ScrapeList(rUrlsToScrape')
    /\ rPc' = "scrape"
    /\ UNCHANGED <<rIn, rAllResults, rResearch, rAgent, rOut, rScrapeFailed, rFallback>>
    /\ UNCHANGED rFrame

RSearchSettle == RSearchSettleOver(0..MaxUrl, 0..MaxStride, 0..MaxItems, FailedSets)

\* the same step when any subset of the 11 searches throws: query i
\* answers the two catalogue items from position i + 1 on
RSearchSettleAnySubset == RSearchSettleOver({1}, {1}, {2}, SUBSET Queries)

\* await Promise.all(scrapePromises) resolves: the insights are extracted
\* and runSearchResearch returns; refreshProductResearch returns the
\* research, scrapeProductUrl returns it unless it is empty, and then
\* calls runMarketResearch
RScrapeSettle ==
    /\ rPc = "scrape"
    /\ \E failures \in ScrapeFailures :
          /\ rAllResults' = ScrapeAll(rScrapeList, failures)
          /\ rScrapeFailed' =
                {rScrapeList[k].url : k \in {j \in 1..Len(rScrapeList) :
                                                ScrapeFails(failures, rScrapeList[j].url)}}
          /\ rResearch' = SearchResearch(rAllResults', rIn.brand)
          /\ IF rIn.op = "refresh"
             THEN rPc' = "done" /\ rOut' = RefreshResult(rResearch')
             ELSE IF SearchFoundNothing(rResearch')
             THEN rPc' = "agent" /\ UNCHANGED rOut
             ELSE rPc' = "done" /\ rOut' = ScrapeSuccess(rResearch')
    /\ UNCHANGED <<rIn, rSearchResults, rUrlsToScrape, rScrapeList, rAgent, rResponses,
                   rFallback>>
    /\ UNCHANGED rFrame

\* await Promise.all of the two runAgentResearch calls resolves (a throwing
\* agent resolves to data null). runMarketResearch returns, and
\* scrapeProductUrl substitutes its research if it found something; or the
\* competitors the agent answered are not an array, .map throws out of
\* runMarketResearch and the catch of scrapeProductUrl keeps the research
RAgentSettle ==
    /\ rPc = "agent"
    /\ \E painPointsResult \in AgentOutcomes, competitorResult \in AgentOutcomes,
          competitorsIsArray \in BOOLEAN :
          IF competitorResult.data /\ ~competitorsIsArray
          THEN /\ rAgent' = NoResearch
               /\ rFallback' = "threw"
               /\ rOut' = ScrapeSuccess(rResearch)
          ELSE /\ rAgent' = MarketResearchOf(painPointsResult, competitorResult)
               /\ rFallback' = "returned"
               /\ rOut' = ScrapeSuccess(IF AgentFoundSomething(rAgent') THEN rAgent'
                                         ELSE rResearch)
    /\ rPc' = "done"
    /\ UNCHANGED <<rIn, rSearchResults, rUrlsToScrape, rScrapeList, rAllResults,
                   rResearch, rResponses, rScrapeFailed>>
    /\ UNCHANGED rFrame

RNext ==
    \/ RScrapeProductUrl
    \/ RProductSettle
    \/ RRefreshProductResearch
    \/ RSearchSettle
    \/ RScrapeSettle
    \/ RAgentSettle

(***************************************************************************)
(* Influencer discovery: findInfluencers                                   *)
(***************************************************************************)

\* Bound: most influencers the completion service lists in one reply.
MaxExtracted == 12

\* relevanceScore: z.number().min(1).max(10)
MaxScore == 10

\* .slice(0, 20) of the deduplicated search results
PoolLimit == 20

\* influencers.slice(0, 10)
TopCount == 10

\* the queries array has 7 entries
InfluencerQueries == 0..6

\* let platform = "instagram"; if (i >= 2 && i < 4) ... else if (i === 4) ...
\* else if (i >= 5) ...
PlatformOf(i) ==
    IF i >= 2 /\ i < 4 THEN "tiktok"
    ELSE IF i = 4 THEN "twitter"
    ELSE IF i >= 5 THEN "youtube"
    ELSE "instagram"

\* one searchPromises entry of findInfluencers: the try block and its catch
InfluencerSearchPromise(i, response) ==
    IF ~response.ok THEN <<>>
    ELSE LET items == SelectSeq(response.items,
                                LAMBDA item : item.url # 0 /\ item.title # <<>>)
         IN  Built([k \in 1..Len(items) |->
                      [url |-> items[k].url, title |-> items[k].title,
                       description |-> items[k].description, platform |-> PlatformOf(i)]])

\* for (const results of searchResults) allResults.push(...results)
RECURSIVE FlattenInfluencerResults(_, _)
FlattenInfluencerResults(searchResults, i) ==
    IF i \notin InfluencerQueries THEN <<>>
    ELSE searchResults[i] \o FlattenInfluencerResults(searchResults, i + 1)

\* allResults.filter((item, i, arr) => arr.findIndex(x => x.url === item.url) === i)
\*           .slice(0, 20)
UniqueResults(allResults) ==
    SliceTo(KeepFrom(allResults,
                     {i \in 1..Len(allResults) :
                         \A j \in 1..(i - 1) : allResults[j].url # allResults[i].url},
                     1),
            PoolLimit)

\* The replies of the completion service: the request rejects, the reply
\* has no content (the default '{"influencers":[]}' is parsed), the content
\* is not JSON, the JSON has no influencers array, or it lists n influencers
\* whose scores are ((a * k + b) mod 10) + 1 for k = 0..n-1.
ScoreList(n, a, b) == Built([k \in 1..n |-> ((a * (k - 1) + b) % MaxScore) + 1])

CompletionReplies ==
    {[kind |-> k, scores |-> <<>>] : k \in {"throw", "nocontent", "malformed", "noarray"}}
    \cup {[kind |-> "list", scores |-> ScoreList(n, a, b)] :
             n \in 0..MaxExtracted, a \in 0..(MaxScore - 1), b \in 0..(MaxScore - 1)}

\* parsed.influencers.map(inf => ({ ...inf, id: crypto.randomUUID(), ... })):
\* the k-th influencer of the reply gets a fresh id, here k
WithIds(scores) == Built([k \in 1..Len(scores) |-> [id |-> k, relevanceScore |-> scores[k]]])

\* Array.prototype.sort with (a, b) => b.relevanceScore - a.relevanceScore:
\* a stable sort, so x goes behind every entry whose score is not lower
RECURSIVE InsertByRelevance(_, _)
InsertByRelevance(sorted, x) ==
    IF sorted = <<>> THEN <<x>>
    ELSE IF Head(sorted).relevanceScore >= x.relevanceScore
    THEN <<Head(sorted)>> \o InsertByRelevance(Tail(sorted), x)
    ELSE <<x>> \o sorted

RECURSIVE SortFrom(_, _, _)
SortFrom(influencers, i, sorted) ==
    IF i > Len(influencers) THEN sorted
    ELSE SortFrom(influencers, i + 1, InsertByRelevance(sorted, influencers[i]))

SortByRelevance(influencers) == SortFrom(influencers, 1, <<>>)

\* the truncation applied before the sort
TopInfluencersSliceFirst(influencers) == SortByRelevance(SliceTo(influencers, TopCount))

\* influencers.sort(...); influencers.slice(0, 10)
TopInfluencers(influencers) == SliceTo(SortByRelevance(influencers), TopCount)

FNoOut == [kind |-> "none", influencers |-> <<>>, found |-> 0, error |-> ""]

\* findInfluencers rejects: the error reaches the caller
FThrown(error) == [FNoOut EXCEPT !.kind = "thrown", !.error = error]

\* { influencers: influencers.slice(0, 10), searchSummary: `Found ${influencers.length} ...` }
FResult(influencers) ==
    [kind |-> "result", influencers |-> TopInfluencers(influencers),
     found |-> Len(influencers), error |-> ""]

\* { influencers: [], searchSummary: "Failed to extract influencer data" }
FFailed == [FNoOut EXCEPT !.kind = "result", !.error = "Failed to extract influencer data"]

FInit ==
    /\ fPc = "call"
    /\ fIn \in [firecrawlKey : BOOLEAN, openaiKey : BOOLEAN]
    /\ fUnique = <<>>
    /\ fExtracted = <<>>
    /\ fOut = FNoOut

FIdle ==
    /\ fPc = "idle"
    /\ fIn = [firecrawlKey |-> FALSE, openaiKey |-> FALSE]
    /\ fUnique = <<>>
    /\ fExtracted = <<>>
    /\ fOut = FNoOut

\* findInfluencers up to the await of the searches; getFirecrawl() is
\* called outside any try
FFindInfluencers ==
    /\ fPc = "call"
    /\ IF ~fIn.firecrawlKey
       THEN fPc' = "done" /\ fOut' = FThrown("Firecrawl API key not configured")
       ELSE fPc' = "search" /\ UNCHANGED fOut
    /\ UNCHANGED <<fIn, fUnique, fExtracted>>
    /\ UNCHANGED fFrame

\* await Promise.all(searchPromises) resolves: flatten, deduplicate, cut to
\* 20; then getOpenAI(), again outside any try, and the completion request
FSearchSettle ==
    /\ fPc = "search"
    /\ \E offset \in 0..1, stride \in 0..MaxStride, count \in 0..MaxItems,
          failed \in {{}, {0}, InfluencerQueries} :
          fUnique' =
             UniqueResults(FlattenInfluencerResults(
                [i \in InfluencerQueries |->
                    InfluencerSearchPromise(i, SearchResponse(i, offset, stride, count, failed))],
                0))
    /\ IF ~fIn.openaiKey
       THEN fPc' = "done" /\ fOut' = FThrown("OpenAI API key not configured")
       ELSE fPc' = "complete" /\ UNCHANGED fOut
    /\ UNCHANGED <<fIn, fExtracted>>
    /\ UNCHANGED fFrame

\* the completion request settles: the try block from the await on, and
\* its catch
FCompletionSettle ==
    /\ fPc = "complete"
    /\ \E reply \in CompletionReplies :
          IF reply.kind \in {"throw", "malformed", "noarray"}
          THEN fOut' = FFailed /\ UNCHANGED fExtracted
          ELSE /\ fExtracted' = WithIds(reply.scores)
               /\ fOut' = FResult(fExtracted')
    /\ fPc' = "done"
    /\ UNCHANGED <<fIn, fUnique>>
    /\ UNCHANGED fFrame

FNext ==
    \/ FFindInfluencers
    \/ FSearchSettle
    \/ FCompletionSettle

(***************************************************************************)
(* Outreach email generation: generateOutreachEmails                       *)
(***************************************************************************)

\* Bound: most influencers passed to generateOutreachEmails.
MaxInfluencers == 4

\* The replies of the completion service to one request:
\*   throw      the request rejects
\*   nocontent  no choices or empty content: the default '{}' is parsed
\*   malformed  the content is not JSON: JSON.parse throws
\*   null       the content is the JSON null: email.subject throws
\*   scalar     another JSON value that is not an object with the fields
\*   object     an object with subject and body
EmailReplies == {"throw", "nocontent", "malformed", "null", "scalar", "object"}

\* the try block of one iteration runs to its end: a draft is pushed
PushesDraft(reply) == reply \in {"nocontent", "scalar", "object"}

\* a try around the whole loop: the first failure ends it
ContinuesAfterSuccessOnly(reply) == PushesDraft(reply)

\* the try is inside the loop body, so the loop goes on after any reply
ContinuesAfter(reply) == TRUE

\* { id: crypto.randomUUID(), influencer, subject: email.subject,
\*   body: email.body, status: "draft" }
DraftOf(influencer, reply) ==
    [id |-> influencer, influencer |-> influencer,
     subject |-> IF reply = "object" THEN "text" ELSE "undefined",
     body |-> IF reply = "object" THEN "text" ELSE "undefined",
     status |-> "draft"]

GNoOut == [kind |-> "none", drafts |-> <<>>, error |-> ""]

GInit ==
    /\ gPc = "call"
    /\ gIn \in {[openaiKey |-> key, influencers |-> Built([k \in 1..n |-> k])] :
                   key \in BOOLEAN, n \in 0..MaxInfluencers}
    /\ gIndex = 0
    /\ gInFlight = 0
    /\ gIssued = <<>>
    /\ gReplies = <<>>
    /\ gDrafts = <<>>
    /\ gOut = GNoOut

GIdle ==
    /\ gPc = "idle"
    /\ gIn = [openaiKey |-> FALSE, influencers |-> <<>>]
    /\ gIndex = 0
    /\ gInFlight = 0
    /\ gIssued = <<>>
    /\ gReplies = <<>>
    /\ gDrafts = <<>>
    /\ gOut = GNoOut

\* generateOutreachEmails up to its first await: getOpenAI() outside any
\* try, then the first iteration's request, or the return of no drafts
GGenerateOutreachEmails ==
    /\ gPc = "call"
    /\ IF ~gIn.openaiKey
       THEN /\ gPc' = "done"
            /\ gOut' = [GNoOut EXCEPT !.kind = "thrown",
                                      !.error = "OpenAI API key not configured"]
            /\ UNCHANGED <<gIndex, gInFlight, gIssued>>
       ELSE IF gIn.influencers = <<>>
       THEN /\ gPc' = "done"
            /\ gOut' = [GNoOut EXCEPT !.kind = "result"]
            /\ UNCHANGED <<gIndex, gInFlight, gIssued>>
       ELSE /\ gPc' = "await"
            /\ gIndex' = 1
            /\ gInFlight' = gInFlight + 1
            /\ gIssued' = Append(gIssued, gIn.influencers[1])
            /\ UNCHANGED gOut
    /\ UNCHANGED <<gIn, gReplies, gDrafts>>
    /\ UNCHANGED gFrame

\* the awaited request settles: the rest of the iteration (or its catch),
\* then the next iteration's request or the return of drafts
GCompletionSettle ==
    /\ gPc = "await"
    /\ \E reply \in EmailReplies :
          /\ gReplies' = Append(gReplies, reply)
          /\ gDrafts' = IF PushesDraft(reply)
                        THEN Append(gDrafts, DraftOf(gIn.influencers[gIndex], reply))
                        ELSE gDrafts
          /\ IF gIndex < Len(gIn.influencers) /\ ContinuesAfter(reply)
             THEN /\ gIndex' = gIndex + 1
                  /\ gInFlight' = gInFlight - 1 + 1
                  /\ gIssued' = Append(gIssued, gIn.influencers[gIndex + 1])
                  /\ UNCHANGED <<gPc, gOut>>
             ELSE /\ gInFlight' = gInFlight - 1
                  /\ gPc' = "done"
                  /\ gOut' = [GNoOut EXCEPT !.kind = "result", !.drafts = gDrafts']
                  /\ UNCHANGED <<gIndex, gIssued>>
    /\ UNCHANGED gIn
    /\ UNCHANGED gFrame

GNext ==
    \/ GGenerateOutreachEmails
    \/ GCompletionSettle

(***************************************************************************)
(* Outreach screen: InfluencerOutreach, EmailDraftView                     *)
(***************************************************************************)

\* Bound: most influencers a search shows.
MaxShown == 2

\* Bound: how often the screen is opened.
MaxMounts == 2

\* emailDrafts.find(d => d.influencer.id === influencer.id)
HasDraft(drafts, influencer) == \E k \in 1..Len(drafts) : drafts[k].influencer = influencer

getDraftForInfluencer(drafts, influencer) ==
    drafts[CHOOSE k \in 1..Len(drafts) :
              /\ drafts[k].influencer = influencer
              /\ \A j \in 1..(k - 1) : drafts[j].influencer # influencer]

\* a Send button that is not disabled while a send is running
SendButtonAlwaysEnabled(draft, hasEmail, isSending) ==
    /\ draft.status = "draft"
    /\ hasEmail

\* The Send button of EmailDraftView is rendered for a draft of status
\* "draft" whose influencer has an email, and is disabled while isSending.
SendButtonEnabled(draft, hasEmail, isSending) ==
    /\ draft.status = "draft"
    /\ hasEmail
    /\ ~isSending

\* prev.map(d => d.id === draft.id ? { ...d, status } : d)
WithStatus(drafts, influencer, status) ==
    Built([k \in 1..Len(drafts) |->
              IF drafts[k].influencer = influencer
              THEN [drafts[k] EXCEPT !.status = status] ELSE drafts[k]])

\* the drafts generateOutreachEmails returns for the influencers of keep
DraftsFor(keep, n) ==
    KeepFrom(Built([k \in 1..n |-> [influencer |-> k, status |-> "draft"]]), keep, 1)

UInit ==
    /\ uMount = 1
    /\ uPhase = "empty"
    /\ uInfluencers = <<>>
    /\ uDrafts = <<>>
    /\ uSelected = 0
    /\ uIsSending = FALSE
    /\ uSends = <<>>

UIdle ==
    /\ uMount = 0
    /\ uPhase = "empty"
    /\ uInfluencers = <<>>
    /\ uDrafts = <<>>
    /\ uSelected = 0
    /\ uIsSending = FALSE
    /\ uSends = <<>>

\* handleSearchInfluencers up to the await of findInfluencers
USearchClick ==
    /\ uMount > 0
    /\ uPhase = "empty"
    /\ uPhase' = "searching"
    /\ UNCHANGED <<uMount, uInfluencers, uDrafts, uSelected, uIsSending, uSends>>
    /\ UNCHANGED uFrame

\* findInfluencers settles: it rejects (the transition ends, nothing is
\* set), or its influencers are stored and, if there are any,
\* generateOutreachEmails is called
USearchSettle ==
    /\ uPhase = "searching"
    /\ \E rejected \in BOOLEAN, n \in 0..MaxShown :
          \E emails \in [1..n -> BOOLEAN] :
             IF rejected
             THEN uPhase' = "empty" /\ UNCHANGED uInfluencers
             ELSE /\ uInfluencers' = Built(emails)
                  /\ uPhase' = IF n > 0 THEN "generating" ELSE "ready"
    /\ UNCHANGED <<uMount, uDrafts, uSelected, uIsSending, uSends>>
    /\ UNCHANGED uFrame

\* generateOutreachEmails settles: it rejects, or its drafts (for some of
\* the influencers, in their order) are stored
UGenerateSettle ==
    /\ uPhase = "generating"
    /\ \E rejected \in BOOLEAN, keep \in SUBSET (1..Len(uInfluencers)) :
          uDrafts' = IF rejected THEN uDrafts ELSE DraftsFor(keep, Len(uInfluencers))
    /\ uPhase' = "ready"
    /\ UNCHANGED <<uMount, uInfluencers, uSelected, uIsSending, uSends>>
    /\ UNCHANGED uFrame

\* onSelect of an InfluencerCard
USelect ==
    /\ uPhase \in {"generating", "ready"}
    /\ \E i \in 1..Len(uInfluencers) : uSelected' = i
    /\ UNCHANGED <<uMount, uPhase, uInfluencers, uDrafts, uIsSending, uSends>>
    /\ UNCHANGED uFrame

\* a click on the Send button: handleSend up to the await inside
\* handleSendEmail
UClickSend ==
    /\ uPhase = "ready"
    /\ uSelected # 0
    /\ HasDraft(uDrafts, uSelected)
    /\ SendButtonEnabled(getDraftForInfluencer(uDrafts, uSelected),
                         uInfluencers[uSelected], uIsSending)
    /\ uIsSending' = TRUE
    /\ uSends' = Append(uSends, [mount |-> uMount, influencer |-> uSelected,
                                 settled |-> FALSE])
    /\ UNCHANGED <<uMount, uPhase, uInfluencers, uDrafts, uSelected>>
    /\ UNCHANGED uFrame

\* a sendOutreachEmail call settles: the rest of handleSendEmail and of
\* handleSend. A rejected call skips both setEmailDrafts and
\* setIsSending(false); the setters of an unmounted screen do nothing.
USendSettle ==
    /\ \E k \in 1..Len(uSends), outcome \in {"success", "failure", "rejected"} :
          /\ ~uSends[k].settled
          /\ uSends' = [uSends EXCEPT ![k].settled = TRUE]
          /\ IF uSends[k].mount = uMount /\ outcome # "rejected"
             THEN /\ uDrafts' = WithStatus(uDrafts, uSends[k].influencer,
                                           IF outcome = "success" THEN "sent" ELSE "failed")
                  /\ uIsSending' = FALSE
             ELSE UNCHANGED <<uDrafts, uIsSending>>
    /\ UNCHANGED <<uMount, uPhase, uInfluencers, uSelected>>
    /\ UNCHANGED uFrame

\* onBack and a later return to the outreach stage: the screen is mounted
\* anew with fresh state
UBack ==
    /\ uMount > 0
    /\ uMount < MaxMounts
    /\ uMount' = uMount + 1
    /\ uPhase' = "empty"
    /\ uInfluencers' = <<>>
    /\ uDrafts' = <<>>
    /\ uSelected' = 0
    /\ uIsSending' = FALSE
    /\ UNCHANGED uSends
    /\ UNCHANGED uFrame

UNext ==
    \/ USearchClick
    \/ USearchSettle
    \/ UGenerateSettle
    \/ USelect
    \/ UClickSend
    \/ USendSettle
    \/ UBack

(***************************************************************************)
(* Email delivery: sendOutreachEmail                                       *)
(***************************************************************************)

\* Bound: most sendOutreachEmail invocations of one run.
MaxCalls == 3

\* the drafts sendOutreachEmail is called with: whether the influencer has
\* an email address and whether the draft has a body
SendDrafts == [email : BOOLEAN, body : BOOLEAN]

\* the checks with the one on the address left out
SendGuardKeyOnly(key, draft) ==
    IF ~key THEN "RESEND_API_KEY not configured"
    ELSE IF ~draft.body THEN "TypeError"
    ELSE ""

\* The statements of sendOutreachEmail before the fetch: the two early
\* returns, and draft.body.replace, which throws into the catch for a
\* draft without body. "" when the fetch is reached.
SendGuard(key, draft) ==
    IF ~key THEN "RESEND_API_KEY not configured"
    ELSE IF ~draft.email THEN "Influencer has no email address"
    ELSE IF ~draft.body THEN "TypeError"
    ELSE ""

SInit ==
    /\ sEnv \in [key : BOOLEAN]
    /\ sCalls = <<>>

SIdle ==
    /\ sEnv = [key |-> FALSE]
    /\ sCalls = <<>>

\* sendOutreachEmail up to its first await, or to its return
SSendOutreachEmail ==
    /\ Len(sCalls) < MaxCalls
    /\ \E draft \in SendDrafts :
          sCalls' = Append(sCalls,
             IF SendGuard(sEnv.key, draft) # ""
             THEN [draft |-> draft, pc |-> "done", fetches |-> 0, success |-> FALSE,
                   error |-> SendGuard(sEnv.key, draft)]
             ELSE [draft |-> draft, pc |-> "fetch", fetches |-> 1, success |-> FALSE,
                   error |-> ""])
    /\ UNCHANGED sEnv
    /\ UNCHANGED sFrame

\* the fetch of https://api.resend.com/emails settles: it rejects (catch),
\* answers ok, or answers another status (response.text() is awaited)
SFetchSettle ==
    /\ \E k \in 1..Len(sCalls), outcome \in {"rejected", "ok", "notok"} :
          /\ sCalls[k].pc = "fetch"
          /\ sCalls' =
                [sCalls EXCEPT ![k] =
                    IF outcome = "ok" THEN [@ EXCEPT !.pc = "done", !.success = TRUE]
                    ELSE IF outcome = "notok" THEN [@ EXCEPT !.pc = "text"]
                    ELSE [@ EXCEPT !.pc = "done", !.error = "Failed to send email"]]
    /\ UNCHANGED sEnv
    /\ UNCHANGED sFrame

\* await response.text() settles: the "Resend API error" return, or the
\* catch
SErrorTextSettle ==
    /\ \E k \in 1..Len(sCalls), rejected \in BOOLEAN :
          /\ sCalls[k].pc = "text"
          /\ sCalls' =
                [sCalls EXCEPT ![k] =
                    [@ EXCEPT !.pc = "done",
                              !.error = IF rejected THEN "Failed to send email"
                                        ELSE "Resend API error"]]
    /\ UNCHANGED sEnv
    /\ UNCHANGED sFrame

SNext ==
    \/ SSendOutreachEmail
    \/ SFetchSettle
    \/ SErrorTextSettle

(***************************************************************************)
(* Scratch directories: combineVideosWithAudio and cleanupTempDir of two   *)
(* generateClipMedia invocations running at the same time                  *)
(***************************************************************************)

\* Bound: most videos an invocation hands to combineVideosWithAudio.
MaxScratchVideos == 2

Invocations == {1, 2}

\* The names mkdtempSync can give to a directory.
DirNames == {"video-combine-a", "video-combine-b", "video-combine-c"}

FileNames == {"scene_0.mp4", "scene_1.mp4", "scene_2.mp4", "audio.mp3",
              "concat.txt", "concatenated.mp4", "final.mp4"}

SceneFile(k) == <<"scene_0.mp4", "scene_1.mp4", "scene_2.mp4">>[k + 1]

\* A file is written as the invocation that wrote it last, 0 when absent.
DirAbsent == [state |-> "absent", files |-> [f \in FileNames |-> 0], removedBy |-> 0]

\* Mutant of MkdtempSync: one fixed directory name, created if missing.
MkdtempSyncFixedName(dirs) == {"video-combine-a"}

\* mkdtempSync(join(tmpdir(), "video-combine-")): six random characters are
\* appended and the directory is created; the name is one no directory has
\* or had (the names drawn for two runs are taken to differ).
MkdtempSync(dirs) == {d \in DirNames : dirs[d].state = "absent"}

\* writeFileSync(join(tempDir, file), ...) by invocation i.
WriteFileSync(dirs, d, file, i) == [dirs EXCEPT ![d].files[file] = i]

\* existsSync(tempDir) and then rmSync(tempDir, { recursive, force }) in a
\* try whose catch ignores the error: the directory and all its files go,
\* or (rmSync threw) everything stays.
RemoveDir(dirs, d, i, rmOk) ==
    IF dirs[d].state = "exists" /\ rmOk
    THEN [dirs EXCEPT ![d] = [DirAbsent EXCEPT !.state = "removed", !.removedBy = i]]
    ELSE dirs

Touch(i, d, op) == [by |-> i, dir |-> d, op |-> op]

TNoInv == [pc |-> "idle", n |-> 0, tempDir |-> "null", dl |-> <<>>]

TInit ==
    /\ tInv \in [Invocations ->
                   {[TNoInv EXCEPT !.pc = "start", !.n = n] : n \in 1..MaxScratchVideos}]
    /\ tDirs = [d \in DirNames |-> DirAbsent]
    /\ tLog = {}

TIdle ==
    /\ tInv = [i \in Invocations |-> TNoInv]
    /\ tDirs = [d \in DirNames |-> DirAbsent]
    /\ tLog = {}

\* tempDir = mkdtempSync(...), then every download is started. When
\* mkdtempSync throws, tempDir is still null and the catch removes nothing.
TMkdtemp(i) ==
    /\ tInv[i].pc = "start"
    /\ \/ \E d \in MkdtempSync(tDirs) :
             /\ tDirs' = [tDirs EXCEPT ![d].state = "exists"]
             /\ tInv' = [tInv EXCEPT ![i].pc = "download", ![i].tempDir = d,
                                     ![i].dl = [k \in 1..tInv[i].n |-> "inflight"]]
             /\ tLog' = tLog \cup {Touch(i, d, "mkdtemp")}
       \/ /\ tInv' = [tInv EXCEPT ![i].pc = "done"]
          /\ UNCHANGED <<tDirs, tLog>>
    /\ UNCHANGED tFrame

\* The download of videoUrls[k] settles: fetch, arrayBuffer, then
\* writeFileSync(join(tempDir, `scene_${k}.mp4`)), which throws when the
\* directory is gone. The first rejection sends combineVideosWithAudio to
\* its catch; the other downloads go on.
TDownload(i, k) ==
    /\ tInv[i].pc \in {"download", "catch", "done"}
    /\ k + 1 \in DOMAIN tInv[i].dl
    /\ tInv[i].dl[k + 1] = "inflight"
    /\ \E fetched \in BOOLEAN :
          IF fetched /\ tDirs[tInv[i].tempDir].state = "exists"
          THEN /\ tDirs' = WriteFileSync(tDirs, tInv[i].tempDir, SceneFile(k), i)
               /\ tInv' = [tInv EXCEPT ![i].dl[k + 1] = "done"]
               /\ tLog' = tLog \cup {Touch(i, tInv[i].tempDir, "write")}
          ELSE /\ tInv' = [tInv EXCEPT ![i].dl[k + 1] = "failed",
                                       ![i].pc = IF @ = "download" THEN "catch" ELSE @]
               /\ UNCHANGED <<tDirs, tLog>>
    /\ UNCHANGED tFrame

\* The catch block of combineVideosWithAudio after a rejected download.
TCombineCatch(i) ==
    /\ tInv[i].pc = "catch"
    /\ \E rmOk \in BOOLEAN :
          tDirs' = RemoveDir(tDirs, tInv[i].tempDir, i, rmOk)
    /\ tLog' = tLog \cup {Touch(i, tInv[i].tempDir, "rm")}
    /\ tInv' = [tInv EXCEPT ![i].pc = "done"]
    /\ UNCHANGED tFrame

\* All downloads resolved: audio.mp3 and concat.txt are written and the two
\* ffmpeg runs write concatenated.mp4 and final.mp4; a throw of any of them
\* goes to the catch block, which removes the directory.
TAssemble(i) ==
    /\ tInv[i].pc = "download"
    /\ \A k \in DOMAIN tInv[i].dl : tInv[i].dl[k] = "done"
    /\ LET d == tInv[i].tempDir
           written == WriteFileSync(WriteFileSync(tDirs, d, "audio.mp3", i),
                                    d, "concat.txt", i)
       IN \E outcome \in {"ok", "concat_failed", "mux_failed"} :
             IF outcome = "ok"
             THEN /\ tDirs' = WriteFileSync(WriteFileSync(written, d, "concatenated.mp4", i),
                                            d, "final.mp4", i)
                  /\ tInv' = [tInv EXCEPT ![i].pc = "upload"]
                  /\ tLog' = tLog \cup {Touch(i, d, "write")}
             ELSE /\ \E rmOk \in BOOLEAN :
                        tDirs' = RemoveDir(written, d, i, rmOk)
                  /\ tInv' = [tInv EXCEPT ![i].pc = "done"]
                  /\ tLog' = tLog \cup {Touch(i, d, "write"), Touch(i, d, "rm")}
    /\ UNCHANGED tFrame

\* uploadToMux reads final.mp4 and settles, then
\* await cleanupTempDir(combineResult.tempDir) and the return.
TCleanup(i) ==
    /\ tInv[i].pc = "upload"
    /\ \E rmOk \in BOOLEAN :
          tDirs' = RemoveDir(tDirs, tInv[i].tempDir, i, rmOk)
    /\ tLog' = tLog \cup {Touch(i, tInv[i].tempDir, "rm")}
    /\ tInv' = [tInv EXCEPT ![i].pc = "done"]
    /\ UNCHANGED tFrame

TNext ==
    \E i \in Invocations :
        \/ TMkdtemp(i)
        \/ \E k \in 0..(MaxScratchVideos - 1) : TDownload(i, k)
        \/ TCombineCatch(i)
        \/ TAssemble(i)
        \/ TCleanup(i)

(***************************************************************************)
(* runSearchResearch with its concurrent searches and scrapes settling     *)
(* one at a time, in any order                                             *)
(***************************************************************************)

\* The answers of the services in one run: they are fixed before the
\* searches are issued and do not depend on when a request completes.
QInputs ==
    [offset : {1, 4}, stride : {1, 2}, count : {MaxItems}, failed : {{}, {3}},
     failures : {"none", "odd"}, brand : {Acme}]

\* Mutant of PromiseAllSlot: results are stored in the order they arrive.
PromiseAllSlotByArrival(index, arrival) == arrival

\* Promise.all resolves to an array holding the value of the promise at
\* position index of its argument at position index, whichever settled
\* first; arrival is the number of promises settled before this one.
PromiseAllSlot(index, arrival) == index

NoScrape ==
    [title |-> <<>>, url |-> 0, description |-> <<>>, content |-> <<>>,
     queryType |-> "pending"]

QResponse(in, i) == SearchResponse(i, in.offset, in.stride, in.count, in.failed)

\* queries.map(async (query, i) => ...) runs every callback up to its first
\* await: all 11 searches are in flight before any of them settles.
QInit ==
    /\ qPc = "search"
    /\ qIn \in QInputs
    /\ qPending = Queries
    /\ qSearchResults = NoSearchResults
    /\ qScrapeList = <<>>
    /\ qScrapePending = {}
    /\ qScraped = <<>>
    /\ qOrder = [search |-> FALSE, scrape |-> FALSE]
    /\ qOut = NoResearch

QIdle ==
    /\ qPc = "idle"
    /\ qIn = [offset |-> 0, stride |-> 0, count |-> 0, failed |-> {},
              failures |-> "none", brand |-> <<>>]
    /\ qPending = {}
    /\ qSearchResults = NoSearchResults
    /\ qScrapeList = <<>>
    /\ qScrapePending = {}
    /\ qScraped = <<>>
    /\ qOrder = [search |-> FALSE, scrape |-> FALSE]
    /\ qOut = NoResearch

\* firecrawl.search of query i settles and its callback returns the tagged
\* items (or [] from the catch).
QSearchSettle(i) ==
    /\ qPc = "search"
    /\ i \in qPending
    /\ qSearchResults' =
          [qSearchResults EXCEPT
              ![PromiseAllSlot(i, QueryCount - Cardinality(qPending))] =
                  SearchPromise(i, QResponse(qIn, i))]
    /\ qPending' = qPending \ {i}
    /\ qOrder' = [qOrder EXCEPT !.search = @ \/ \E j \in qPending : j < i]
    /\ UNCHANGED <<qPc, qIn, qScrapeList, qScrapePending, qScraped, qOut>>
    /\ UNCHANGED qFrame

\* await Promise.all(searchPromises) resolves: flatten, deduplicate, cut
\* per intent, and [...].map(scrapeUrl) starts every scrape.
QSearchJoin ==
    /\ qPc = "search"
    /\ qPending = {}
    /\ qScrapeList' = ScrapeList(Flatten(qSearchResults, 0))
    /\ qScrapePending' = 1..Len(qScrapeList')
    /\ qScraped' = [k \in 1..Len(qScrapeList') |-> NoScrape]
    /\ qPc' = "scrape"
    /\ UNCHANGED <<qIn, qPending, qSearchResults, qOrder, qOut>>
    /\ UNCHANGED qFrame

\* firecrawl.scrape for the item at position k settles and scrapeUrl
\* returns.
QScrapeSettle(k) ==
    /\ qPc = "scrape"
    /\ k \in qScrapePending
    /\ qScraped' =
          [qScraped EXCEPT
              ![PromiseAllSlot(k, Len(qScrapeList) - Cardinality(qScrapePending) + 1)] =
                  ScrapeUrl(qScrapeList[k], ScrapeFails(qIn.failures, qScrapeList[k].url))]
    /\ qScrapePending' = qScrapePending \ {k}
    /\ qOrder' = [qOrder EXCEPT !.scrape = @ \/ \E j \in qScrapePending : j < k]
    /\ UNCHANGED <<qPc, qIn, qPending, qSearchResults, qScrapeList, qOut>>
    /\ UNCHANGED qFrame

\* await Promise.all(scrapePromises) resolves: allResults is filled in
\* array order, the insights are extracted and runSearchResearch returns.
QScrapeJoin ==
    /\ qPc = "scrape"
    /\ qScrapePending = {}
    /\ qOut' = SearchResearch(qScraped, qIn.brand)
    /\ qPc' = "done"
    /\ UNCHANGED <<qIn, qPending, qSearchResults, qScrapeList, qScrapePending, qScraped,
                   qOrder>>
    /\ UNCHANGED qFrame

QNext ==
    \/ \E i \in Queries : QSearchSettle(i)
    \/ QSearchJoin
    \/ \E k \in 1..(3 * scrapeLimit) : QScrapeSettle(k)
    \/ QScrapeJoin

(***************************************************************************)
(* ProductScraper wizard                                                   *)
(***************************************************************************)

\* Bound: most urls submitted in one session.
MaxSubmits == 3

\* The product pages a user submits.
ProductUrls == {"a", "b"}

NullResult == [kind |-> "null", url |-> "none", research |-> "none"]

\* The ScrapeResult of url u: success with or without research, or
\* { success: false }. Research is written as the product it is about.
ScrapeResultOf(u, outcome) ==
    IF outcome = "ok" THEN [kind |-> "ok", url |-> u, research |-> u]
    ELSE IF outcome = "noresearch" THEN [kind |-> "ok", url |-> u, research |-> "none"]
    ELSE [kind |-> "failed", url |-> u, research |-> "none"]

\* isPending of the scrape transition.
IsPending(scrapes) == scrapes # {}

\* Which screen the component renders: the chain of if statements over
\* stage, isPending, result and creative.
Screen(stage, isPending, result, creative) ==
    IF stage = "input" THEN "input"
    ELSE IF stage = "analyzing" \/ isPending THEN "analyzing"
    ELSE IF stage = "outreach" /\ result.kind = "ok" THEN "outreach"
    ELSE IF stage = "creative" /\ creative # "null" /\ result.kind = "ok" THEN "creative"
    ELSE IF result.kind = "ok" THEN "results"
    ELSE "error"

Shown == Screen(wStage, IsPending(wScrapes), wResult, wCreative)

\* The videoUrl prop of InfluencerOutreach: the stored playback identifier
\* (written as the product of its video), or undefined.
VideoUrlProp(playbackId) == IF playbackId # "null" THEN playbackId ELSE "undefined"

WInit ==
    /\ wStage = "input"
    /\ wUrl = "default"
    /\ wResult = NullResult
    /\ wCreative = "null"
    /\ wPlaybackId = "null"
    /\ wScrapes = {}
    /\ wRefresh = "null"
    /\ wGen = "null"
    /\ wMedia = {}
    /\ wSubmits = 0
    /\ wAfterReset = FALSE

WIdle ==
    /\ wStage = "idle"
    /\ wUrl = "default"
    /\ wResult = NullResult
    /\ wCreative = "null"
    /\ wPlaybackId = "null"
    /\ wScrapes = {}
    /\ wRefresh = "null"
    /\ wGen = "null"
    /\ wMedia = {}
    /\ wSubmits = 0
    /\ wAfterReset = FALSE

\* handleSubmit(submittedUrl), up to the await of scrapeProductUrl.
handleSubmit(u) ==
    /\ Shown = "input"
    /\ wSubmits < MaxSubmits
    /\ wUrl' = u
    /\ wStage' = "analyzing"
    /\ wScrapes' = wScrapes \cup {[id |-> wSubmits + 1, url |-> u]}
    /\ wSubmits' = wSubmits + 1
    /\ wAfterReset' = FALSE
    /\ UNCHANGED <<wResult, wCreative, wPlaybackId, wRefresh, wGen, wMedia>>
    /\ UNCHANGED wFrame

\* The rest of the transition of handleSubmit once its scrapeProductUrl
\* call settles: setResult and setStage("results"), or the catch with
\* setStage("input"). No check that this scrape is still the wanted one.
WScrapeSettle(s) ==
    /\ s \in wScrapes
    /\ wScrapes' = wScrapes \ {s}
    /\ \E outcome \in {"ok", "noresearch", "failed", "throw"} :
          IF outcome = "throw"
          THEN wStage' = "input" /\ UNCHANGED wResult
          ELSE wStage' = "results" /\ wResult' = ScrapeResultOf(s.url, outcome)
    /\ UNCHANGED <<wUrl, wCreative, wPlaybackId, wRefresh, wGen, wMedia, wSubmits,
                   wAfterReset>>
    /\ UNCHANGED wFrame

\* handleReset: the Change button of the analyzing, results and error
\* screens. generatedMuxPlaybackId is not among the states it clears.
handleReset ==
    /\ Shown \in {"analyzing", "results", "error"}
    /\ wStage' = "input"
    /\ wResult' = NullResult
    /\ wCreative' = "null"
    /\ wAfterReset' = TRUE
    /\ UNCHANGED <<wUrl, wPlaybackId, wScrapes, wRefresh, wGen, wMedia, wSubmits>>
    /\ UNCHANGED wFrame

\* handleRefresh, up to the await of refreshProductResearch; the button is
\* disabled while isRefreshing.
handleRefresh ==
    /\ Shown = "results"
    /\ wRefresh = "null"
    /\ wRefresh' = wResult.url
    /\ UNCHANGED <<wStage, wUrl, wResult, wCreative, wPlaybackId, wScrapes, wGen, wMedia,
                   wSubmits, wAfterReset>>
    /\ UNCHANGED wFrame

\* refreshProductResearch settles:
\* setResult((prev) => (prev?.success ? { ...prev, research } : prev)).
WRefreshSettle ==
    /\ wRefresh # "null"
    /\ wRefresh' = "null"
    /\ \E ok \in BOOLEAN :
          wResult' = IF ok /\ wResult.kind = "ok"
                     THEN [wResult EXCEPT !.research = wRefresh]
                     ELSE wResult
    /\ UNCHANGED <<wStage, wUrl, wCreative, wPlaybackId, wScrapes, wGen, wMedia,
                   wSubmits, wAfterReset>>
    /\ UNCHANGED wFrame

\* handleGenerateCreative, up to the await of generateStoryboards; the
\* Create Ads button is shown when the result has research and is disabled
\* while isGenerating.
handleGenerateCreative ==
    /\ Shown = "results"
    /\ wResult.research # "none"
    /\ wGen = "null"
    /\ wGen' = wResult.url
    /\ UNCHANGED <<wStage, wUrl, wResult, wCreative, wPlaybackId, wScrapes, wRefresh,
                   wMedia, wSubmits, wAfterReset>>
    /\ UNCHANGED wFrame

\* generateStoryboards settles: setCreative(output), setStage("creative").
WGenerateSettle ==
    /\ wGen # "null"
    /\ wGen' = "null"
    /\ \E ok \in BOOLEAN :
          IF ok
          THEN wCreative' = wGen /\ wStage' = "creative"
          ELSE UNCHANGED <<wCreative, wStage>>
    /\ UNCHANGED <<wUrl, wResult, wPlaybackId, wScrapes, wRefresh, wMedia, wSubmits,
                   wAfterReset>>
    /\ UNCHANGED wFrame

handleBackToResearch ==
    /\ Shown = "creative"
    /\ wStage' = "results"
    /\ UNCHANGED <<wUrl, wResult, wCreative, wPlaybackId, wScrapes, wRefresh, wGen,
                   wMedia, wSubmits, wAfterReset>>
    /\ UNCHANGED wFrame

handleGoToOutreach ==
    /\ Shown = "creative"
    /\ wStage' = "outreach"
    /\ UNCHANGED <<wUrl, wResult, wCreative, wPlaybackId, wScrapes, wRefresh, wGen,
                   wMedia, wSubmits, wAfterReset>>
    /\ UNCHANGED wFrame

handleBackToCreative ==
    /\ Shown = "outreach"
    /\ wStage' = "creative"
    /\ UNCHANGED <<wUrl, wResult, wCreative, wPlaybackId, wScrapes, wRefresh, wGen,
                   wMedia, wSubmits, wAfterReset>>
    /\ UNCHANGED wFrame

\* handleGenerateFullAd of the StoryboardView shown in the creative stage,
\* up to the await of generateClipMedia; one generation in flight per
\* storyboard.
handleGenerateFullAd ==
    /\ Shown = "creative"
    /\ wCreative \notin wMedia
    /\ wMedia' = wMedia \cup {wCreative}
    /\ UNCHANGED <<wStage, wUrl, wResult, wCreative, wPlaybackId, wScrapes, wRefresh,
                   wGen, wSubmits, wAfterReset>>
    /\ UNCHANGED wFrame

\* generateClipMedia settles; on success onMediaGenerated, which is
\* handleMediaGenerated, stores the playback identifier.
handleMediaGenerated(p) ==
    /\ p \in wMedia
    /\ wMedia' = wMedia \ {p}
    /\ \E success \in BOOLEAN :
          wPlaybackId' = IF success THEN p ELSE wPlaybackId
    /\ UNCHANGED <<wStage, wUrl, wResult, wCreative, wScrapes, wRefresh, wGen,
                   wSubmits, wAfterReset>>
    /\ UNCHANGED wFrame

WNext ==
    \/ \E u \in ProductUrls : handleSubmit(u)
    \/ \E s \in wScrapes : WScrapeSettle(s)
    \/ handleReset
    \/ handleRefresh
    \/ WRefreshSettle
    \/ handleGenerateCreative
    \/ WGenerateSettle
    \/ handleBackToResearch
    \/ handleGoToOutreach
    \/ handleBackToCreative
    \/ handleGenerateFullAd
    \/ \E p \in ProductUrls : handleMediaGenerated(p)

(***************************************************************************)
(* Specifications                                                          *)
(***************************************************************************)

InitMedia == MInit /\ SbIdle /\ XIdle /\ RIdle /\ FIdle /\ GIdle /\ UIdle /\ SIdle /\ TIdle /\ QIdle /\ WIdle

SpecMedia == InitMedia /\ [][MNext]_vars

\* Every awaited step of the media pipeline settles: the 5 s timer fires and
\* each service call resolves or rejects, so a pipeline that can take a step
\* eventually takes one.
SpecMediaFair == InitMedia /\ [][MNext]_vars /\ WF_vars(MNext)

InitStoryboard == SbInit /\ MIdle /\ XIdle /\ RIdle /\ FIdle /\ GIdle /\ UIdle /\ SIdle /\ TIdle /\ QIdle /\ WIdle

SpecStoryboard == InitStoryboard /\ [][SbNext]_vars

InitAdExtract == XInit /\ SbIdle /\ MIdle /\ RIdle /\ FIdle /\ GIdle /\ UIdle /\ SIdle /\ TIdle /\ QIdle /\ WIdle

SpecAdExtract == InitAdExtract /\ [][XNext]_vars

InitResearch == RInit /\ SbIdle /\ MIdle /\ XIdle /\ FIdle /\ GIdle /\ UIdle /\ SIdle /\ TIdle /\ QIdle /\ WIdle

SpecResearch == InitResearch /\ [][RNext]_vars

\* refreshProductResearch when any subset of its searches fails
InitSearch == InitResearch /\ rIn.op = "refresh" /\ rIn.brand = Acme

SearchNext == RRefreshProductResearch \/ RSearchSettleAnySubset \/ RScrapeSettle

SpecSearch == InitSearch /\ [][SearchNext]_vars

\* C1: for every outcome of the completion service, generateStoryboards
\* returns a CreativeOutput whose clips list has exactly 4 entries.
C1_AlwaysFourClips == sbPc = "done" => Len(sbClips) = 4

InitInfluencers == FInit /\ SbIdle /\ MIdle /\ XIdle /\ RIdle /\ GIdle /\ UIdle /\ SIdle /\ TIdle /\ QIdle /\ WIdle

SpecInfluencers == InitInfluencers /\ [][FNext]_vars

InitEmails == GInit /\ SbIdle /\ MIdle /\ XIdle /\ RIdle /\ FIdle /\ UIdle /\ SIdle /\ TIdle /\ QIdle /\ WIdle

SpecEmails == InitEmails /\ [][GNext]_vars

InitOutreach == UInit /\ SbIdle /\ MIdle /\ XIdle /\ RIdle /\ FIdle /\ GIdle /\ SIdle /\ TIdle /\ QIdle /\ WIdle

SpecOutreach == InitOutreach /\ [][UNext]_vars

InitSend == SInit /\ SbIdle /\ MIdle /\ XIdle /\ RIdle /\ FIdle /\ GIdle /\ UIdle /\ TIdle /\ QIdle /\ WIdle

SpecSend == InitSend /\ [][SNext]_vars

InitScratch == TInit /\ SbIdle /\ MIdle /\ XIdle /\ RIdle /\ FIdle /\ GIdle /\ UIdle /\ SIdle /\ QIdle /\ WIdle

SpecScratch == InitScratch /\ [][TNext]_vars

InitOrder == QInit /\ SbIdle /\ MIdle /\ XIdle /\ RIdle /\ FIdle /\ GIdle /\ UIdle /\ SIdle /\ TIdle /\ WIdle

SpecOrder == InitOrder /\ [][QNext]_vars

InitWizard == WInit /\ SbIdle /\ MIdle /\ XIdle /\ RIdle /\ FIdle /\ GIdle /\ UIdle /\ SIdle /\ TIdle /\ QIdle

SpecWizard == InitWizard /\ [][WNext]_vars

(***************************************************************************)
(* Properties of the scene media pipeline                                  *)
(***************************************************************************)

\* The scene indices whose generateVideoScene job failed.
FailedSet == {i \in 0..3 : mScene[i].st = "settled" /\ ~mScene[i].success}

AllScenesOk == \A i \in 0..3 : mScene[i].st = "settled" /\ mScene[i].success

AudioFailed == mAudio.st = "settled" /\ ~mAudio.success

AudioOk == mAudio.st = "settled" /\ mAudio.success

\* The scene numbers the failure message names.
NamedScenes == {mResult.scenes[k].scene : k \in 1..Len(mResult.scenes)}

\* C2 as stated: in multi-scene mode, when the set F of failed scene jobs is
\* not empty the result is a failure whose message names exactly the scene
\* indices in F.
C2_MessageNamesSceneIndices ==
    (mPc = "done" /\ MultiScene(mClips) /\ FailedSet # {})
        => /\ ~mResult.success
           /\ NamedScenes = FailedSet

\* C2 amended: the message names exactly the scenes of F, each by its
\* 1-based scene number (scene index + 1), in scene order, with its error.
C2_MessageNamesSceneNumbers ==
    (mPc = "done" /\ MultiScene(mClips) /\ FailedSet # {})
        => /\ ~mResult.success
           /\ mResult.error = "Video generation failed"
           /\ NamedScenes = {i + 1 : i \in FailedSet}
           /\ Len(mResult.scenes) = Cardinality(FailedSet)
           /\ \A k \in 1..Len(mResult.scenes) :
                 /\ mResult.scenes[k].error = mScene[mResult.scenes[k].scene - 1].error
                 /\ \A l \in 1..(k - 1) : mResult.scenes[l].scene < mResult.scenes[k].scene

\* The job of scene index 2 alone failed, and the message names "Scene 3".
C2_Witness ==
    /\ mPc = "done"
    /\ MultiScene(mClips)
    /\ FailedSet = {2}
    /\ AudioOk
    /\ mResult.scenes = <<[scene |-> 3, error |-> "No video output returned"]>>

\* C3: if any of the 4 scene jobs or the voiceover job failed, neither the
\* combination nor the upload is ever started and the result returned is a
\* failure; the upload is started only after the combination succeeded.
C3_NoCombineNoUploadAfterJobFailure ==
    /\ (MultiScene(mClips) /\ (FailedSet # {} \/ AudioFailed))
          => /\ mCalls.combine = 0
             /\ mCombine = "none"
             /\ mCalls.upload = 0
             /\ mFs.dir = "none"
             /\ (mPc = "done" => mResult.returned /\ ~mResult.success)
    /\ (mCalls.upload > 0 => mCombine = "ok")
    /\ (mCalls.combine > 0 => AllJobsSettled /\ FailedSet = {} /\ AudioOk)

\* The voiceover alone failed: a failure is returned, nothing was combined
\* or uploaded.
C3_Witness ==
    /\ mPc = "done"
    /\ MultiScene(mClips)
    /\ AllScenesOk
    /\ AudioFailed
    /\ mResult.error = "Audio"
    /\ mCalls.combine = 0
    /\ mCalls.upload = 0

C5_ConcatInSceneOrder ==
    \A r \in 1..Len(mFfmpeg) :
        MultiScene(mClips)
            => /\ Len(mFfmpeg[r]) = 4
               /\ \A i \in 0..3 : mFfmpeg[r][i + 1] = mScene[i].videoUrl
               /\ \A i \in 0..3 : mScene[i].videoUrl = i

\* The concatenation ran after both the jobs and the downloads had settled
\* out of index order.
C5_Witness ==
    /\ MultiScene(mClips)
    /\ mOrder.jobs
    /\ mOrder.dl
    /\ mFfmpeg = << <<0, 1, 2, 3>> >>

AllStagesOk ==
    /\ mPc = "done"
    /\ mClips = 4
    /\ AllScenesOk
    /\ AudioOk

\* C10 as stated: with 4 clips, when all 4 scene jobs and the voiceover
\* succeed the result is a success with one playback id and sceneCount 4.
C10_SuccessWhenJobsSucceed ==
    AllStagesOk
        => /\ mResult.success
           /\ mResult.playbackId # ""
           /\ mResult.sceneCount = 4

\* C10 amended: with 4 clips, when all 4 scene jobs and the voiceover
\* succeed the result is a success exactly if the combination and the
\* upload succeeded too, and it then carries one playback id and
\* sceneCount 4; otherwise it is a "Combine" or a "Mux upload" failure.
C10_SuccessWhenAllStagesSucceed ==
    AllStagesOk
        => /\ mResult.returned
           /\ mResult.success <=> (mCombine = "ok" /\ mMux.result = "ok")
           /\ mResult.success
                 => /\ mResult.playbackId = "playback"
                    /\ mResult.assetId = "asset"
                    /\ mResult.sceneCount = 4
           /\ ~mResult.success
                 => mResult.error = IF mCombine = "ok" THEN "Mux upload" ELSE "Combine"

\* Everything succeeded and the result says so.
C10_Witness ==
    /\ AllStagesOk
    /\ mCombine = "ok"
    /\ mMux.result = "ok"
    /\ mResult.success
    /\ mResult.sceneCount = 4

\* the operation returned a research result to its caller
Returned == rPc = "done" /\ rOut.research.defined

\* a name equals the brand, contains it or is contained in it, whatever
\* the case of the letters
SameBrand(name, brand) ==
    \/ ToLower(name) = ToLower(brand)
    \/ Includes(ToLower(name), ToLower(brand))
    \/ Includes(ToLower(brand), ToLower(name))

ReturnedAds == rOut.research.competitorAds

\* C6 (as claimed): in a research result returned for a non-empty brand, no
\* competitor ad has a competitorName that equals the brand, contains it
\* or is contained in it, whatever the case of the letters.
C6_NoAdNamedAfterBrand ==
    (Returned /\ rIn.brand # <<>>) =>
        \A k \in 1..Len(ReturnedAds) : ~SameBrand(ReturnedAds[k].competitorName, rIn.brand)

\* an independent count of the occurrences of pat in text: the largest
\* number of occurrences no two of which overlap
NonOverlapCount(text, pat) ==
    LET occ == {i \in 1..Len(text) : MatchAt(text, pat, i)}
        apart(S) == \A i \in S : \A j \in S : i < j => j - i >= Len(pat)
    IN CHOOSE n \in 0..Cardinality(occ) :
          /\ \E S \in SUBSET occ : Cardinality(S) = n /\ apart(S)
          /\ \A S \in SUBSET occ : apart(S) => Cardinality(S) <= n

\* the combined title, content and description of a result, lower-cased
CombinedText(r) ==
    ToLower(r.title) \o Space \o ToLower(r.content) \o Space \o ToLower(r.description)

MentionsOfBrand(r) == NonOverlapCount(CombinedText(r), ToLower(xBrand))

ExtractedUrls == {xAds[k].url : k \in 1..Len(xAds)}

\* C7: a competitor-ad candidate whose combined title, content and
\* description contains the researched (non-empty) brand more than 3 times,
\* whatever the case of the letters, is not among the extracted
\* competitorAds. Occurrences are counted without overlap.
C7_BrandHeavyCandidateExcluded ==
    xPc = "done" =>
        \A i \in 1..Len(xResults) :
            (xBrand # <<>> /\ MentionsOfBrand(xResults[i]) > 3)
                => xResults[i].url \notin ExtractedUrls

\* C7 witness: a result mentioning the brand exactly 4 times was given to
\* the extraction, which kept nothing of it.
C7_Witness ==
    /\ xPc = "done"
    /\ xBrand # <<>>
    /\ \E i \in 1..Len(xResults) :
          MentionsOfBrand(xResults[i]) = 4 /\ xResults[i].url \notin ExtractedUrls

\* C8 (as claimed): the research returned to a caller by scrapeProductUrl or
\* refreshProductResearch, the substituted fallback research included, has
\* at most 6 pain points and at most 6 competitors.
C8_ReturnedListsCapped ==
    Returned => /\ Len(rOut.research.painPoints) <= 6
                /\ Len(rOut.research.competitors) <= 6

Intents == {"painpoint", "competitor", "competitorAd"}

\* the positions of the merged search results that hold the first
\* occurrence of their url
FirstOccurrences ==
    {i \in 1..Len(rUrlsToScrape) :
        \A j \in 1..(i - 1) : rUrlsToScrape[j].url # rUrlsToScrape[i].url}

FirstOfIntent(t) == {i \in FirstOccurrences : rUrlsToScrape[i].queryType = t}

\* the first 6 of them
SelectedOfIntent(t) ==
    {i \in FirstOfIntent(t) : Cardinality({j \in FirstOfIntent(t) : j < i}) < 6}

ScrapedOfIntent(t) == SelectSeq(rScrapeList, LAMBDA u : u.queryType = t)

Distinct(s) == \A i \in 1..Len(s) : \A j \in 1..Len(s) : i # j => s[i] # s[j]

UrlsOf(s) == [k \in 1..Len(s) |-> s[k].url]

\* C9: once the searches of runSearchResearch have settled, the items handed
\* to the deep scrape have pairwise distinct urls, are for every intent the
\* first 6 first occurrences of a url in the merged results (with the
\* intent of that occurrence), hence at most 6 per intent and 18 in all;
\* and in the research built from them no two pain points and no two
\* competitors share a url and sources has no duplicate.
C9_ScrapedUrlsDistinctAndCapped ==
    rPc \in {"scrape", "agent", "done"} =>
        /\ Distinct(UrlsOf(rScrapeList))
        /\ Len(rScrapeList) <= 18
        /\ \A t \in Intents :
              /\ Len(ScrapedOfIntent(t)) <= 6
              /\ {ScrapedOfIntent(t)[k] : k \in 1..Len(ScrapedOfIntent(t))}
                    = {rUrlsToScrape[i] : i \in SelectedOfIntent(t)}
        /\ \A k \in 1..Len(rScrapeList) : rScrapeList[k].queryType \in Intents
        /\ rResearch.defined =>
              /\ Distinct(UrlsOf(rResearch.painPoints))
              /\ Distinct(UrlsOf(rResearch.competitors))
              /\ Distinct(rResearch.sources)

\* C9 witness: the merged results held a url twice and more than 6 distinct
\* urls of one intent, and the run returned a research with 6 pain points.
C9_Witness ==
    /\ rPc = "done"
    /\ rResearch.defined
    /\ Cardinality(FirstOccurrences) < Len(rUrlsToScrape)
    /\ Cardinality(FirstOfIntent("painpoint")) > 6
    /\ Len(rResearch.painPoints) = 6

\* ------------------------------------------------------------------------
\* C20  uploadToMux always terminates: it performs at most 60 status polls,
\* returns success only if a polled asset reported ready and has a playback
\* id, fails as soon as the asset reports errored, and fails with the
\* timed-out message after 60 polls without a ready asset.
UploadReturned == mPc \in {"cleanup", "done"} /\ mMux.result # "none"

TimedOut == mMux.error = "Timed out waiting for Mux to process video"

C20_PollsBounded ==
    /\ mMux.polls <= MaxAttempts
    /\ mMux.result = "ok" => (mMux.asset = "ready" /\ mMux.playbackId)
    /\ mMux.asset = "errored" =>
          (UploadReturned /\ mMux.result = "failed"
             /\ mMux.error = "Mux asset processing failed")
    /\ (UploadReturned /\ mMux.polls = MaxAttempts
          /\ mMux.asset # "ready" /\ mMux.error \notin {"retrieve", "Mux asset processing failed"})
         => (mMux.result = "failed" /\ TimedOut)
    /\ TimedOut => (mMux.polls = MaxAttempts /\ mMux.asset # "ready")

C20_UploadTerminatesWithin60Polls ==
    /\ []C20_PollsBounded
    /\ (mPc = "upload") ~> UploadReturned

C20_Witness ==
    /\ mPc = "done"
    /\ mMux.polls = MaxAttempts
    /\ TimedOut
    /\ ~mResult.success

\* ------------------------------------------------------------------------
\* C12  An operation whose required credential is absent reports an explicit
\* configuration failure to its caller and never returns an empty, default
\* or fallback success value in its place (here: scrapeProductUrl and
\* refreshProductResearch without the content-fetch key).
ExplicitFailure(out) == ~out.success /\ out.error # ""

C12_MissingKeyIsExplicitFailure ==
    (rPc = "done" /\ ~rIn.key /\ rIn.urlValid) => ExplicitFailure(rOut)

\* ------------------------------------------------------------------------
\* C15  For every subset of the 11 search queries that fail,
\* runSearchResearch still completes without throwing, and every
\* (url, title) result of every successful query is in the merged candidate
\* list with the intent tag of its query index (0-2 pain point, 3-5
\* competitor, 6-10 competitor ad).
IntentOfIndex(i) ==
    CASE i \in 0..2 -> "painpoint"
      [] i \in 3..5 -> "competitor"
      [] i \in 6..10 -> "competitorAd"

FailedQueries == {i \in Queries : ~rResponses[i].ok}

InMerged(item, i) ==
    \E j \in 1..Len(rUrlsToScrape) :
        /\ rUrlsToScrape[j].url = item.url
        /\ rUrlsToScrape[j].title = item.title
        /\ rUrlsToScrape[j].queryType = IntentOfIndex(i)

C15_FailedQueriesLoseNothingElse ==
    /\ rPc \in {"scrape", "done"} /\ rIn.key =>
          \A i \in Queries \ FailedQueries :
              \A k \in 1..Len(rResponses[i].items) :
                  (rResponses[i].items[k].url # 0 /\ rResponses[i].items[k].title # <<>>)
                      => InMerged(rResponses[i].items[k], i)
    /\ rPc = "done" /\ rIn.key =>
          /\ rResearch.defined
          /\ rOut = RefreshResult(rResearch)
          /\ Len(rResearch.sources) = Len(rScrapeList)

C15_Witness ==
    /\ rPc = "done"
    /\ rIn.key
    /\ FailedQueries = {1, 4, 9}
    /\ Len(rUrlsToScrape) > 0
    /\ rOut = RefreshResult(rResearch)

\* ------------------------------------------------------------------------
\* C16  Every URL selected for the deep-scrape pass yields exactly one item
\* handed to extraction and one entry in sources, whether its scrape
\* succeeded or failed; a failed scrape contributes empty content with the
\* search title and description preserved, and the other scrapes keep
\* their content.
ScrapesSettled == rPc \in {"agent", "done"} /\ rResearch.defined

C16_OneItemPerSelectedUrl ==
    ScrapesSettled =>
        /\ Len(rAllResults) = Len(rScrapeList)
        /\ Len(rResearch.sources) = Len(rScrapeList)
        /\ \A k \in 1..Len(rScrapeList) :
              /\ rAllResults[k].url = rScrapeList[k].url
              /\ rResearch.sources[k] = rScrapeList[k].url
              /\ rAllResults[k].title = rScrapeList[k].title
              /\ rAllResults[k].description = rScrapeList[k].description
              /\ rAllResults[k].queryType = rScrapeList[k].queryType
              /\ rAllResults[k].content =
                    IF rScrapeList[k].url \in rScrapeFailed THEN <<>>
                    ELSE SliceTo(MarkdownOf(rScrapeList[k].url), ContentSliceLimit)

C16_Witness ==
    /\ ScrapesSettled
    /\ \E k \in 1..Len(rScrapeList) :
          /\ rScrapeList[k].url \in rScrapeFailed
          /\ rAllResults[k].title # <<>>
          /\ rAllResults[k].content = <<>>
          /\ MarkdownOf(rScrapeList[k].url) # <<>>
    /\ \E k \in 1..Len(rScrapeList) :
          /\ rScrapeList[k].url \notin rScrapeFailed
          /\ rAllResults[k].content # <<>>

\* ------------------------------------------------------------------------
\* C17  scrapeProductUrl invokes the model-driven fallback research only
\* when the search research has zero pain points, zero competitors and zero
\* competitor ads; it returns the fallback output if and only if the
\* fallback was invoked and returned at least one pain point or competitor,
\* and otherwise the search research unchanged (also when the fallback
\* throws).
FallbackInvoked == rPc = "agent" \/ rFallback # "none"

FallbackSubstituted ==
    /\ rFallback = "returned"
    /\ Len(rAgent.painPoints) > 0 \/ Len(rAgent.competitors) > 0

C17_FallbackOnlyWhenEmptyAndSubstitutedOnlyWhenFound ==
    /\ FallbackInvoked =>
          /\ rIn.op = "scrape"
          /\ Len(rResearch.painPoints) = 0
          /\ Len(rResearch.competitors) = 0
          /\ Len(rResearch.competitorAds) = 0
    /\ (rPc = "done" /\ rIn.op = "scrape" /\ rResearch.defined) =>
          /\ rOut.success
          /\ IF FallbackSubstituted
             THEN rOut.research = rAgent /\ rAgent # rResearch
             ELSE rOut.research = rResearch

C17_Witness ==
    /\ rPc = "done"
    /\ FallbackSubstituted
    /\ Len(rAgent.painPoints) = 0
    /\ Len(rResearch.sources) > 0
    /\ rOut.research = rAgent

\* ------------------------------------------------------------------------
\* C11  No exported server operation throws to its caller, for any
\* collaborator failure and any missing credential; each returns a result
\* value (here: findInfluencers).
C11_NoOperationThrows == fPc = "done" => fOut.kind = "result"

\* ------------------------------------------------------------------------
\* C18  findInfluencers returns at most 10 influencers, in non-increasing
\* relevanceScore order, and every influencer extracted but not returned
\* has a relevanceScore no greater than the lowest returned score.
FReturned == fPc = "done" /\ fOut.kind = "result"

C18_TopTenByRelevance ==
    FReturned =>
        /\ Len(fOut.influencers) <= 10
        /\ Range(fOut.influencers) \subseteq Range(fExtracted)
        /\ \A k \in 1..(Len(fOut.influencers) - 1) :
              /\ fOut.influencers[k].relevanceScore >= fOut.influencers[k + 1].relevanceScore
              /\ fOut.influencers[k].id # fOut.influencers[k + 1].id
        /\ \A e \in Range(fExtracted) \ Range(fOut.influencers) :
              /\ Len(fOut.influencers) = 10
              /\ \A r \in Range(fOut.influencers) : e.relevanceScore <= r.relevanceScore

C18_Witness ==
    /\ FReturned
    /\ Len(fExtracted) > 10
    /\ Len(fOut.influencers) = 10
    /\ fOut.influencers[1].relevanceScore > fOut.influencers[10].relevanceScore
    /\ \E k \in 1..10 : fExtracted[k] \notin Range(fOut.influencers)
    /\ \E k \in 11..Len(fExtracted) : fExtracted[k] \in Range(fOut.influencers)

\* ------------------------------------------------------------------------
\* C19  generateOutreachEmails issues its completion requests one at a time
\* in input order (never two in flight), a failure for one influencer never
\* prevents the requests for the later ones, and the returned list is
\* exactly the input-order subsequence of the influencers whose request
\* succeeded and whose reply parsed to a JSON value other than null, each
\* with status draft.
GReturned == gPc = "done" /\ gOut.kind = "result"

OneAtATimeInOrder ==
    /\ gInFlight <= 1
    /\ gInFlight = Len(gIssued) - Len(gReplies)
    /\ gIssued = SubSeq(gIn.influencers, 1, Len(gIssued))
    /\ GReturned => gIssued = gIn.influencers

InfluencersOf(drafts) == [k \in 1..Len(drafts) |-> drafts[k].influencer]

AllDrafts == \A k \in 1..Len(gOut.drafts) : gOut.drafts[k].status = "draft"

\* the original statement: the influencers whose request and parse succeeded
C19_DraftsForParsedReplies ==
    /\ OneAtATimeInOrder
    /\ GReturned =>
          /\ AllDrafts
          /\ InfluencersOf(gOut.drafts) =
                KeepFrom(gIn.influencers,
                         {k \in 1..Len(gReplies) : gReplies[k] \notin {"throw", "malformed"}},
                         1)

C19_DraftsForNonNullReplies ==
    /\ OneAtATimeInOrder
    /\ GReturned =>
          /\ AllDrafts
          /\ InfluencersOf(gOut.drafts) =
                KeepFrom(gIn.influencers,
                         {k \in 1..Len(gReplies) :
                             gReplies[k] \notin {"throw", "malformed", "null"}},
                         1)

C19_Witness ==
    /\ GReturned
    /\ gReplies = <<"object", "throw", "null", "object">>
    /\ InfluencersOf(gOut.drafts) = <<1, 4>>

\* ------------------------------------------------------------------------
\* C13  Over any sequence of user actions and send completions in the
\* outreach screen, an EmailDraft's status only ever moves draft to sent or
\* draft to failed; once a draft is sent or failed its status never changes
\* again and sendOutreachEmail is never invoked again for that draft, and
\* at most one send is in flight for a draft at a time.
StatusOf(drafts, influencer) == getDraftForInfluencer(drafts, influencer).status

InFlightFor(sends, mount, influencer) ==
    {k \in 1..Len(sends) :
        sends[k].mount = mount /\ sends[k].influencer = influencer /\ ~sends[k].settled}

\* a draft that exists before and after a step (the same mount)
StatusMovesOneWay ==
    uMount' = uMount =>
        \A i \in 1..Len(uInfluencers) :
            (HasDraft(uDrafts, i) /\ HasDraft(uDrafts', i)
               /\ StatusOf(uDrafts', i) # StatusOf(uDrafts, i))
            => (StatusOf(uDrafts, i) = "draft" /\ StatusOf(uDrafts', i) \in {"sent", "failed"})

DraftsNeverDisappear ==
    uMount' = uMount =>
        \A i \in 1..Len(uInfluencers) : HasDraft(uDrafts, i) => HasDraft(uDrafts', i)

InvokedOnlyForIdleDrafts ==
    Len(uSends') > Len(uSends) =>
        /\ Len(uSends') = Len(uSends) + 1
        /\ uSends'[Len(uSends')].mount = uMount
        /\ HasDraft(uDrafts, uSends'[Len(uSends')].influencer)
        /\ StatusOf(uDrafts, uSends'[Len(uSends')].influencer) = "draft"
        /\ InFlightFor(uSends, uMount, uSends'[Len(uSends')].influencer) = {}

AtMostOneInFlightPerDraft ==
    \A m \in 1..MaxMounts, i \in 1..MaxShown : Cardinality(InFlightFor(uSends, m, i)) <= 1

C13_StatusOneWayAndNoResend ==
    /\ [][StatusMovesOneWay /\ DraftsNeverDisappear /\ InvokedOnlyForIdleDrafts]_vars
    /\ []AtMostOneInFlightPerDraft

C13_Witness ==
    /\ uMount = 1
    /\ Len(uDrafts) = 2
    /\ uDrafts[1].status = "sent"
    /\ uDrafts[2].status = "failed"
    /\ Len(uSends) = 2

\* ------------------------------------------------------------------------
\* C14  sendOutreachEmail called with a draft whose influencer has no email
\* address returns a failure result and makes no call to the email-
\* delivery service; with an address it makes at most one delivery call
\* and never retries.
C14_NoAddressNoDeliveryAtMostOneCall ==
    \A k \in 1..Len(sCalls) :
        /\ ~sCalls[k].draft.email =>
              /\ sCalls[k].pc = "done"
              /\ sCalls[k].fetches = 0
              /\ ~sCalls[k].success
              /\ sCalls[k].error # ""
        /\ sCalls[k].fetches <= 1
        /\ sCalls[k].success => (sCalls[k].pc = "done" /\ sCalls[k].fetches = 1)
        /\ sCalls[k].pc = "done" => (sCalls[k].success <=> sCalls[k].error = "")

C14_Witness ==
    /\ sEnv.key
    /\ Len(sCalls) = 3
    /\ ~sCalls[1].draft.email /\ sCalls[1].error = "Influencer has no email address"
    /\ sCalls[2].draft.email /\ sCalls[2].error = "Resend API error" /\ sCalls[2].fetches = 1
    /\ sCalls[3].success

(***************************************************************************)
(* Properties of the single clip mode of generateClipMedia                 *)
(***************************************************************************)

\* C21: generateClipMedia called with a clip list of fewer than 4 clips
\* returns a failure and starts no video-generation, speech-synthesis,
\* combination or upload call. (The code has no such check: the test
\* allClips.length >= 4 fails and the call falls through to the single clip
\* mode, which starts one video job and one voiceover job.)
C21_FewClipsIsNamedFailure ==
    (mClips \in 1..(MultiSceneMin - 1) /\ mPc # "start") =>
        /\ mCalls = NoCalls
        /\ mResult.returned
        /\ ~mResult.success

\* C22 (as stated): with fewer than 4 clips (or no clip list) the pipeline
\* runs one scene job and one voiceover job, never runs the ffmpeg
\* concatenation step, and on success reports sceneCount 1.
C22_SingleModeSkipsConcat ==
    mClips < MultiSceneMin =>
        /\ mPc # "start" => (mCalls.video = 1 /\ mCalls.tts = 1)
        /\ mFfmpeg = <<>>
        /\ (mResult.returned /\ mResult.success) => mResult.sceneCount = 1

\* C22 (amended): with fewer than 4 clips (or no clip list) exactly one
\* scene job (scene 0) and one voiceover job are started, the combination
\* is the same as in the multi-scene mode, its concatenation step running
\* once over the single downloaded scene file, and on success sceneCount
\* is 1.
C22_SingleModeOneSceneConcatOfOne ==
    mClips < MultiSceneMin =>
        /\ mPc # "start" =>
              /\ mCalls.video = 1
              /\ mCalls.tts = 1
              /\ mScene[0].st # "none"
              /\ \A i \in 1..3 : mScene[i].st = "none"
              /\ mAudio.st # "none"
        /\ Len(mFfmpeg) <= 1
        /\ mCombine = "ok" => mFfmpeg = << <<0>> >>
        /\ (mResult.returned /\ mResult.success) => mResult.sceneCount = 1

C22_Witness ==
    /\ mClips < MultiSceneMin
    /\ mResult.returned
    /\ mResult.success
    /\ mResult.sceneCount = 1
    /\ mFfmpeg = << <<0>> >>

(***************************************************************************)
(* Properties of the job dispatch of generateClipMedia                     *)
(***************************************************************************)

\* C25: a multi-scene invocation makes exactly one generateVoiceover call,
\* whose text is the voiceover lines of the first 4 clips joined by single
\* spaces in scene order, and exactly 4 generateVideoScene calls, the k-th
\* with the prompt of the k-th clip and scene index k - 1.
C25_OneVoiceoverOfFirstFourAndFourScenes ==
    (mClips >= 4 /\ mPc # "start") =>
        /\ mCalls.tts = 1
        /\ mArgs.tts = << <<"w", "1", " ", "w", "2", " ", "w", "3", " ", "w", "4">> >>
        /\ mCalls.video = 4
        /\ Len(mArgs.video) = 4
        /\ \A k \in 1..4 :
              mArgs.video[k] = [promptText |-> k, sceneIndex |-> k - 1]

C25_Witness ==
    /\ mClips = MaxClips
    /\ mPc = "done"
    /\ mResult.success
    /\ Len(mArgs.tts) = 1
    /\ Len(mArgs.video) = 4

\* C26: the failure checks of generateClipMedia are evaluated, and the
\* operation returns, only when none of the scene jobs and not the voiceover
\* job is still in flight: a job that failed does not end the wait for the
\* others.
C26_NoJobInFlightAfterJoin ==
    (mPc \notin {"start", "jobs"} \/ mResult.returned \/ mCalls.combine > 0) =>
        /\ \A i \in 0..3 : mScene[i].st # "running"
        /\ mAudio.st # "running"

\* A multi-scene run that returned a failure although scene 0 failed while
\* later scene jobs were settled only after it.
C26_Witness ==
    /\ mClips >= MultiSceneMin
    /\ mResult.returned
    /\ ~mResult.success
    /\ ~mScene[0].success
    /\ mScene[3].success
    /\ mOrder.jobs
    /\ \A i \in 0..3 : mScene[i].st = "settled"

(***************************************************************************)
(* Properties of the scratch directories                                   *)
(***************************************************************************)

\* C23: for every interleaving of two concurrent invocations each uses a
\* scratch directory of its own; every file in a directory was written by
\* the invocation that created it, a directory is removed only by that
\* invocation, and so it exists for as long as its invocation works in it.
C23_ScratchDirsNotShared ==
    /\ \A i \in {1, 2} : \A j \in {1, 2} :
          (i # j /\ tInv[i].tempDir # "null") => tInv[i].tempDir # tInv[j].tempDir
    /\ \A e \in tLog : \A j \in {1, 2} :
          j # e.by => tInv[j].tempDir # e.dir
    /\ \A i \in {1, 2} :
          tInv[i].tempDir # "null" =>
              /\ \A f \in FileNames : tDirs[tInv[i].tempDir].files[f] \in {0, i}
              /\ tDirs[tInv[i].tempDir].removedBy \in {0, i}
              /\ tInv[i].pc \in {"download", "upload"} =>
                    tDirs[tInv[i].tempDir].state = "exists"

\* Both invocations have written their final.mp4 and neither has cleaned up.
C23_Witness ==
    /\ tInv[1].pc = "upload"
    /\ tInv[2].pc = "upload"
    /\ tDirs[tInv[1].tempDir].files["final.mp4"] = 1
    /\ tDirs[tInv[2].tempDir].files["final.mp4"] = 2

(***************************************************************************)
(* Properties of the competitor-ad extraction                              *)
(***************************************************************************)

\* The attributed candidates in extraction order, before the duplicate
\* filter.
ExtractionOrder == AttributeAds(AdCandidates(xResults, xBrand), xBrand)

\* C24: no two entries of the extracted competitorAds have the same
\* competitorName; every name among the attributed candidates is kept, and
\* the entry kept for a name is the first candidate of that name in
\* extraction order; the kept entries stay in extraction order.
C24_OneAdPerNameFirstKept ==
    xPc = "done" =>
        LET cands == ExtractionOrder
        IN /\ \A i \in 1..Len(xAds) : \A j \in 1..Len(xAds) :
                 i # j => xAds[i].competitorName # xAds[j].competitorName
           /\ \A c \in 1..Len(cands) :
                 \E k \in 1..Len(xAds) : xAds[k].competitorName = cands[c].competitorName
           /\ \A k \in 1..Len(xAds) :
                 \E c \in 1..Len(cands) :
                    /\ cands[c] = xAds[k]
                    /\ \A b \in 1..(c - 1) :
                          cands[b].competitorName # xAds[k].competitorName
           /\ \A i \in 1..Len(xAds) : \A j \in 1..Len(xAds) :
                 i < j => xAds[i].url < xAds[j].url

\* Two candidates of one name and different urls were extracted and the
\* first was kept.
C24_Witness ==
    /\ xPc = "done"
    /\ Len(ExtractionOrder) = 2
    /\ ExtractionOrder[1].competitorName = ExtractionOrder[2].competitorName
    /\ ExtractionOrder[1].title # ExtractionOrder[2].title
    /\ xAds = <<ExtractionOrder[1]>>

\* C27 (as stated): the brand-repetition rule drops a candidate only if the
\* researched brand occurs more than 3 times in its combined text: a result
\* with 3 or fewer occurrences, or any result when the brand is empty, is
\* not dropped by the rule, so it is extracted unless an earlier result has
\* been extracted (in whose favour the duplicate filter may drop it).
C27_ThreeMentionsPass ==
    xPc = "done" =>
        \A i \in 1..Len(xResults) :
            (xBrand = <<>> \/ MentionsOfBrand(xResults[i]) <= 3) =>
                \/ xResults[i].url \in ExtractedUrls
                \/ \E j \in 1..(i - 1) : xResults[j].url \in ExtractedUrls

(***************************************************************************)
(* Properties of the completion order of searches and scrapes              *)
(***************************************************************************)

\* What the callback of query i returns for the answers of this run.
ExpectedSearch(i) ==
    SearchPromise(i, SearchResponse(i, qIn.offset, qIn.stride, qIn.count, qIn.failed))

\* The scrape list computed from the answers taken in query order.
ExpectedScrapeList == ScrapeList(Flatten([i \in Queries |-> ExpectedSearch(i)], 0))

\* C28: for fixed search and scrape answers, whatever the order in which
\* the 11 searches and the scrapes complete, every settled search result
\* sits at the position of its query, the scrape list (so the intent tag
\* each url keeps and the at most 6 urls chosen per intent) is the one
\* computed from the answers in query order, every settled scrape sits at
\* the position of its item, and the MarketResearch returned is the one
\* computed from the answers in query and list order.
C28_ResultIndependentOfCompletionOrder ==
    /\ qPc \in {"search", "scrape", "done"} =>
          \A i \in Queries :
              qSearchResults[i] = IF i \in qPending THEN <<>> ELSE ExpectedSearch(i)
    /\ qPc \in {"scrape", "done"} =>
          /\ qScrapeList = ExpectedScrapeList
          /\ \A k \in 1..Len(qScrapeList) :
                qScraped[k] =
                   IF k \in qScrapePending THEN NoScrape
                   ELSE ScrapeUrl(qScrapeList[k],
                                  ScrapeFails(qIn.failures, qScrapeList[k].url))
    /\ qPc = "done" =>
          qOut = SearchResearch(ScrapeAll(ExpectedScrapeList, qIn.failures), qIn.brand)

\* A finished run in which searches and scrapes settled out of index
\* order, a url was answered to queries of two intents, and one intent had
\* its full 6 urls scraped.
C28_Witness ==
    /\ qPc = "done"
    /\ qOrder.search
    /\ qOrder.scrape
    /\ \E i \in Queries : \E j \in Queries :
          /\ i < 3 /\ j >= 3
          /\ \E a \in 1..Len(qSearchResults[i]) : \E b \in 1..Len(qSearchResults[j]) :
                qSearchResults[i][a].url = qSearchResults[j][b].url
    /\ Cardinality({k \in 1..Len(qScrapeList) : qScrapeList[k].queryType = "painpoint"}) = 6
    /\ Len(qOut.painPoints) > 0

(***************************************************************************)
(* Properties of the ProductScraper wizard                                 *)
(***************************************************************************)

\* C29: a scrape that completes after the user has reset, or has submitted
\* another url, changes neither the stage nor the stored result: after a
\* reset the wizard stays in the input stage until a url is submitted, and a
\* stored result is always the result of the most recently submitted url.
C29_StaleScrapeChangesNothing ==
    /\ wAfterReset => (wStage = "input" /\ wResult = NullResult)
    /\ wResult.kind # "null" => wResult.url = wUrl

\* C30: the video handed to InfluencerOutreach comes from a video generated
\* for the product currently loaded: whenever a result is stored, a stored
\* playback identifier is of a video generated for the product of that
\* result, and the outreach screen is given no other.
C30_VideoOfLoadedProduct ==
    /\ (wResult.kind = "ok" /\ wPlaybackId # "null") => wPlaybackId = wResult.url
    /\ Shown = "outreach" => VideoUrlProp(wPlaybackId) \in {"undefined", wResult.url}

====
